---- MODULE Spec2Model ----
(***************************************************************************)
(* Admission control of src/shared/optimization/performanceOptimizer.ts:   *)
(* the fixed-window RateLimiter, the DistributedThrottler (token bucket    *)
(* evaluated by a server-side script) and the SlidingWindowRateLimiter,    *)
(* all working against one shared Redis keyspace from several processes,   *)
(* the middlewares of the first two and the AdaptiveRateLimiter.           *)
(*                                                                         *)
(* Time is in milliseconds.  The numbers of the token bucket are IEEE-754  *)
(* doubles, computed with their rounding; the store converts the numbers   *)
(* a script returns to integers.                                           *)
(***************************************************************************)
EXTENDS Integers, Sequences, FiniteSets, TLC

VARIABLES
    clock,      \* the wall clock (Date.now() of a process, the store's clock)
    storeUp,    \* whether the shared store answers
    config,     \* RateLimitConfig of the RateLimiter under test
    throttle,   \* ThrottleConfig of the DistributedThrottler under test
    sliding,    \* RateLimitConfig of the SlidingWindowRateLimiter under test
    skew,       \* per process: offset of its Date.now() from the store's clock
    redis,      \* the shared keyspace: key -> value with its expiry
    pc,         \* per process: where its isAllowed call stands
    loc,        \* per process: the locals of its isAllowed call
    log,        \* the results returned so far, in order of return
    mw,         \* the requests that entered a middleware, each with its response
    baseConfig, \* RateLimitConfig the AdaptiveRateLimiter was built with
    performanceMetrics, \* AdaptiveRateLimiter.performanceMetrics: key -> profile
    failures    \* what escaped every handler: exceptions thrown into the caller, rejections nobody handles

\* the state of the middlewares
mwVars == <<mw, baseConfig, performanceMetrics, failures>>

vars == <<clock, storeUp, config, throttle, sliding, skew, redis, pc, loc, log, mwVars>>

----------------------------------------------------------------------------
(* Bounds of the model. *)

\* checks issued in one behaviour of SpecFW, and its clock ticks
FWMaxChecks == 3
FWMaxTicks == 2

\* checks issued in one behaviour of SpecFWSeq, and its clock ticks
SeqMaxChecks == 6
SeqMaxTicks == 2

\* checks issued in one behaviour of SpecTB, and its clock ticks
TBMaxChecks == 2
TBMaxTicks == 2

\* checks issued in one behaviour of SpecRefill, and its clock ticks
RefillMaxChecks == 3
RefillMaxTicks == 6

\* checks issued in one behaviour of SpecRetry, and its clock ticks
RetryMaxChecks == 4
RetryMaxTicks == 3

\* checks issued in one behaviour of SpecExpiry, and its clock ticks
ExpiryMaxChecks == 2
ExpiryMaxTicks == 2

\* checks issued in one behaviour of SpecNamespace, and its clock ticks
NamespaceMaxChecks == 3
NamespaceMaxTicks == 1

\* checks issued in one behaviour of SpecMisconfig, and its clock ticks
MisconfigMaxChecks == 2
MisconfigMaxTicks == 1

\* checks issued and recordMetric calls made in one behaviour of SpecKeys,
\* and its clock ticks
KeysMaxCalls == 3
KeysMaxTicks == 1

\* checks issued in one behaviour of SpecSW, and its clock ticks
SWMaxChecks == 3
SWMaxTicks == 1

\* checks issued in one behaviour of SpecOutage, and its clock ticks
OutageMaxChecks == 3
OutageMaxTicks == 1

\* checks issued in one behaviour of SpecTBBurst, and its clock ticks
BurstMaxChecks == 3
BurstMaxTicks == 1

\* checks issued in one behaviour of SpecSWSeq, and its clock ticks
SWSeqMaxChecks == 4
SWSeqMaxTicks == 3

\* requests entering the middleware in one behaviour of SpecRefund, and its
\* clock ticks
RefundMaxRequests == 2
RefundMaxTicks == 2

\* requests entering a middleware in one behaviour of SpecGate, and its
\* clock ticks
GateMaxRequests == 3
GateMaxTicks == 1

\* requests entering the middleware in one behaviour of SpecRefundOutage,
\* and its clock ticks
RefundOutageMaxRequests == 2
RefundOutageMaxTicks == 1

\* requests entering the adaptive middleware in one behaviour of
\* SpecAdaptive, its recordMetric calls after the initial profile, and its
\* clock ticks
AdaptiveMaxRequests == 2
AdaptiveMaxRecords == 1
AdaptiveMaxTicks == 2

\* requests entering the adaptive middleware in one behaviour of
\* SpecFeedback, and its clock ticks
FeedbackMaxRequests == 3
FeedbackMaxTicks == 2

----------------------------------------------------------------------------
(* Arithmetic helpers. *)

Max(a, b) == IF a >= b THEN a ELSE b

Min(a, b) == IF a <= b THEN a ELSE b

\* Math.ceil(a / b) for a >= 0, b > 0
Ceil(a, b) == (a + b - 1) \div b

\* Math.floor(a / b) for b > 0
Floor(a, b) == a \div b

RECURSIVE SumSeq(_)
SumSeq(s) == IF s = <<>> THEN 0 ELSE Head(s) + SumSeq(Tail(s))

\* all orderings of the index set S, as sequences
RECURSIVE Orderings(_)
Orderings(S) ==
    IF S = {} THEN {<<>>}
    ELSE UNION {{<<x>> \o o : o \in Orderings(S \ {x})} : x \in S}

----------------------------------------------------------------------------
(* Numbers of the token bucket.  The script (Lua) and its caller           *)
(* (JavaScript) compute in IEEE-754 doubles.  A double x is held as the    *)
(* integer x * 2^FracBits, with a sign and a magnitude; the magnitude is   *)
(* a natural number of any size, held as its digits in base 2^LimbBits,    *)
(* lowest first, without leading zero digits.  Every operation computes    *)
(* the exact result and rounds it to Significand bits, ties to even.  The  *)
(* representation is exact for the doubles that are multiples of           *)
(* 2^-FracBits: those of magnitude 1/8 and more, and the shorter ones.     *)

\* bits of a digit of a magnitude
LimbBits == 15

Base == 2^LimbBits

\* bits of the significand of a double
Significand == 53

\* bits kept after the binary point
FracBits == 55

\* digit i of a, zero beyond its ends
Limb(a, i) == IF 1 <= i /\ i <= Len(a) THEN a[i] ELSE 0

RECURSIVE BigNorm(_)
\* a without leading zero digits
BigNorm(a) ==
    IF a = <<>> THEN a
    ELSE IF a[Len(a)] = 0 THEN BigNorm(SubSeq(a, 1, Len(a) - 1)) ELSE a

\* the magnitude of the natural number n < Base^2
BigOf(n) == BigNorm(<<n % Base, n \div Base>>)

RECURSIVE BigAddFrom(_, _, _, _)
BigAddFrom(a, b, i, carry) ==
    IF i > Len(a) /\ i > Len(b)
    THEN IF carry = 0 THEN <<>> ELSE <<carry>>
    ELSE <<(Limb(a, i) + Limb(b, i) + carry) % Base>>
            \o BigAddFrom(a, b, i + 1, (Limb(a, i) + Limb(b, i) + carry) \div Base)

\* a + b
BigAdd(a, b) ==
    IF a = <<>> THEN b ELSE IF b = <<>> THEN a ELSE BigAddFrom(a, b, 1, 0)

RECURSIVE BigSubFrom(_, _, _, _)
BigSubFrom(a, b, i, borrow) ==
    IF i > Len(a) THEN <<>>
    ELSE <<(a[i] - Limb(b, i) - borrow + Base) % Base>>
            \o BigSubFrom(a, b, i + 1, IF a[i] - Limb(b, i) - borrow < 0 THEN 1 ELSE 0)

\* a - b, for a >= b
BigSub(a, b) == IF b = <<>> THEN a ELSE BigNorm(BigSubFrom(a, b, 1, 0))

RECURSIVE BigCmpFrom(_, _, _)
BigCmpFrom(a, b, i) ==
    IF i = 0 THEN 0
    ELSE IF a[i] # b[i] THEN (IF a[i] > b[i] THEN 1 ELSE -1)
    ELSE BigCmpFrom(a, b, i - 1)

\* -1, 0 or 1 as a is less than, equal to or greater than b
BigCmp(a, b) ==
    IF Len(a) # Len(b) THEN (IF Len(a) > Len(b) THEN 1 ELSE -1)
    ELSE BigCmpFrom(a, b, Len(a))

RECURSIVE BigMulFrom(_, _, _, _)
BigMulFrom(a, n, i, carry) ==
    IF i > Len(a) THEN (IF carry = 0 THEN <<>> ELSE <<carry>>)
    ELSE <<(a[i] * n + carry) % Base>> \o BigMulFrom(a, n, i + 1, (a[i] * n + carry) \div Base)

\* a * n, for a digit n
BigMulSmall(a, n) == IF a = <<>> \/ n = 0 THEN <<>> ELSE BigMulFrom(a, n, 1, 0)

RECURSIVE BigMulFromLimb(_, _, _, _)
BigMulFromLimb(a, b, j, acc) ==
    IF j = 0 THEN acc
    ELSE BigMulFromLimb(a, b, j - 1, BigAdd(BigMulSmall(a, b[j]), <<0>> \o acc))

\* a * b
BigMul(a, b) ==
    IF a = <<>> \/ b = <<>> THEN <<>> ELSE BigNorm(BigMulFromLimb(a, b, Len(b), <<>>))

\* a * 2^s
BigShl(a, s) ==
    IF a = <<>> \/ s = 0 THEN a
    ELSE [i \in 1..(s \div LimbBits) |-> 0] \o BigMulSmall(a, 2^(s % LimbBits))

\* a \div 2^s
BigShr(a, s) ==
    IF a = <<>> \/ s = 0 THEN a
    ELSE LET k == s \div LimbBits
             w == 2^(s % LimbBits)
         IN  BigNorm([i \in 1..(Len(a) - k) |->
                        (Limb(a, i + k) \div w) + (Limb(a, i + k + 1) % w) * (Base \div w)])

\* number of bits of the digit n
Bits(n) == CHOOSE k \in 0..LimbBits : n < 2^k /\ (k = 0 \/ 2^(k - 1) <= n)

\* number of bits of a
BigBits(a) == IF a = <<>> THEN 0 ELSE (Len(a) - 1) * LimbBits + Bits(a[Len(a)])

\* the digit of the quotient of cur by v, for cur < v * Base and v with its
\* highest bit set: at most 2 below the quotient of the top two digits of cur
\* by the top digit of v
Digit(cur, v) ==
    LET qhat == Min(Base - 1, (Limb(cur, Len(v) + 1) * Base + Limb(cur, Len(v)))
                                 \div v[Len(v)])
    IN  IF BigCmp(BigMulSmall(v, qhat), cur) <= 0 THEN qhat
        ELSE IF BigCmp(BigMulSmall(v, qhat - 1), cur) <= 0 THEN qhat - 1
        ELSE qhat - 2

RECURSIVE BigDivLong(_, _, _, _, _)
\* quotient q and remainder of (rem, u[i], .., u[1]) by v
BigDivLong(u, v, i, rem, q) ==
    IF i = 0 THEN <<q, rem>>
    ELSE IF rem = <<>> /\ u[i] = 0 THEN BigDivLong(u, v, i - 1, rem, <<0>> \o q)
    ELSE IF BigCmp(<<u[i]>> \o rem, v) < 0
    THEN BigDivLong(u, v, i - 1, <<u[i]>> \o rem, <<0>> \o q)
    ELSE BigDivLong(u, v, i - 1,
                    BigSub(<<u[i]>> \o rem, BigMulSmall(v, Digit(<<u[i]>> \o rem, v))),
                    <<Digit(<<u[i]>> \o rem, v)>> \o q)

\* quotient and remainder of a by b # 0
BigDivMod(a, b) ==
    IF a = <<>> \/ b = <<>> THEN <<<<>>, <<>>>>
    ELSE LET sh == LimbBits - Bits(b[Len(b)])
             r  == BigDivLong(BigShl(a, sh), BigShl(b, sh), Len(BigShl(a, sh)), <<>>, <<>>)
         IN  <<BigNorm(r[1]), BigShr(r[2], sh)>>

\* the magnitude of the double nearest to (h + f) / 2, where h is a
\* magnitude in halves of 2^-FracBits and f a fraction of a half, 0 <= f < 1,
\* with f > 0 iff sticky
RoundHalves(h, sticky) ==
    IF h = <<>> THEN h
    ELSE
    LET s    == Max(1, BigBits(h) - Significand)
        q    == BigShr(h, s)
        c    == BigCmp(BigSub(h, BigShl(q, s)), BigShl(<<1>>, s - 1))
        up   == c > 0 \/ (c = 0 /\ (sticky \/ Limb(q, 1) % 2 = 1))
    IN  BigShl(IF up THEN BigAdd(q, <<1>>) ELSE q, s - 1)

\* the double of the integer n
FOf(n) == [neg |-> n < 0, mag |-> BigShl(BigOf(IF n < 0 THEN -n ELSE n), FracBits)]

\* zero
FZero == [neg |-> FALSE, mag |-> <<>>]

\* -1, 0 or 1 as x is less than, equal to or greater than y
FCmp(x, y) ==
    IF x.neg # y.neg
    THEN IF x.mag = <<>> /\ y.mag = <<>> THEN 0 ELSE IF x.neg THEN -1 ELSE 1
    ELSE IF x.neg THEN BigCmp(y.mag, x.mag) ELSE BigCmp(x.mag, y.mag)

FNeg(x) == [neg |-> x.mag # <<>> /\ ~x.neg, mag |-> x.mag]

\* x + y
FAdd(x, y) ==
    IF x.neg = y.neg
    THEN [neg |-> x.neg, mag |-> RoundHalves(BigShl(BigAdd(x.mag, y.mag), 1), FALSE)]
    ELSE LET c == BigCmp(x.mag, y.mag)
         IN  IF c = 0 THEN FZero
             ELSE IF c > 0
             THEN [neg |-> x.neg, mag |-> RoundHalves(BigShl(BigSub(x.mag, y.mag), 1), FALSE)]
             ELSE [neg |-> y.neg, mag |-> RoundHalves(BigShl(BigSub(y.mag, x.mag), 1), FALSE)]

\* x - y
FSub(x, y) == FAdd(x, FNeg(y))

\* x * y
FMul(x, y) ==
    IF x.mag = <<>> \/ y.mag = <<>> THEN FZero
    ELSE LET p == BigMul(x.mag, y.mag)
             h == BigShr(p, FracBits - 1)
             m == RoundHalves(h, BigShl(h, FracBits - 1) # p)
         IN  [neg |-> m # <<>> /\ x.neg # y.neg, mag |-> m]

\* x / y, for y # 0
FDiv(x, y) ==
    IF x.mag = <<>> \/ y.mag = <<>> THEN FZero
    ELSE LET qr == BigDivMod(BigShl(x.mag, FracBits + 1), y.mag)
             m  == RoundHalves(qr[1], qr[2] # <<>>)
         IN  [neg |-> m # <<>> /\ x.neg # y.neg, mag |-> m]

\* math.min(x, y)
FMin(x, y) == IF FCmp(y, x) < 0 THEN y ELSE x

\* the integer a store reply carries for the Lua number x: its integral
\* part, the fraction dropped
FTrunc(x) ==
    LET n == BigShr(x.mag, FracBits)
        v == Limb(n, 1) + Base * Limb(n, 2)
    IN  IF x.neg THEN -v ELSE v

\* Math.ceil(x), for an x whose integral part is below Base^2
FCeil(x) ==
    IF x.neg \/ BigShl(BigShr(x.mag, FracBits), FracBits) = x.mag
    THEN FTrunc(x)
    ELSE FTrunc(x) + 1

----------------------------------------------------------------------------
(* The shared store: Redis commands on a keyspace with per-key expiry.     *)
(* A value is [kind, ..., expireAt]; expireAt is {} (no expiry) or {t}.    *)

\* keys whose expiry has passed at time t are gone
Purge(store, t) ==
    LET live == {k \in DOMAIN store : \A e \in store[k].expireAt : e > t}
    IN  [k \in live |-> store[k]]

\* mutant of Incrby: SET key by, which drops what was counted before
IncrbyOverwrite(store, key, by) ==
    IF key \in DOMAIN store
    THEN [store EXCEPT ![key].val = by]
    ELSE (key :> [kind |-> "string", val |-> by, expireAt |-> {}]) @@ store

\* INCRBY key by: a missing key counts as 0; the expiry is left as it is
Incrby(store, key, by) ==
    IF key \in DOMAIN store
    THEN [store EXCEPT ![key].val = @ + by]
    ELSE (key :> [kind |-> "string", val |-> by, expireAt |-> {}]) @@ store

\* the reply of INCRBY: the value after the increment
IncrbyReply(store, key, by) == Incrby(store, key, by)[key].val

\* DECRBY key by
Decrby(store, key, by) == Incrby(store, key, 0 - by)

\* EXPIRE key seconds at store time t: no effect on a missing key
Expire(store, key, seconds, t) ==
    IF key \in DOMAIN store
    THEN [store EXCEPT ![key].expireAt = {t + seconds * 1000}]
    ELSE store

----------------------------------------------------------------------------
(* Middlewares: what a limiter's middleware does with a request once its   *)
(* isAllowed call has returned.  mw holds one record for every request     *)
(* that entered a middleware: the configuration of the limiter, the key    *)
(* and the weight drawn from the request, the response (statusCode,        *)
(* headers, body), the calls of next() and whether res.end was replaced.   *)

\* what the RateLimiter constructor makes of its options: the defaults,
\* overridden by every option given
RateLimiterConfig(options) ==
    options @@ [keyPrefix |-> "rate-limit", skipSuccessfulRequests |-> FALSE,
                skipFailedRequests |-> FALSE, handler |-> "defaultHandler"]

\* a request in a middleware of limiter kind, at the await of isAllowed;
\* the response starts with status 200, no header and no body
Request(p, kind, cfg, key, weight) ==
    [proc |-> p, limiter |-> kind, config |-> cfg, key |-> key, weight |-> weight,
     stage |-> "isAllowed", skipped |-> FALSE, entry |-> 0, result |-> <<>>,
     statusCode |-> 200, headers |-> <<>>, body |-> <<>>,
     nextCalls |-> 0, endHook |-> FALSE, endedAt |-> 0, refund |-> <<>>]

\* new Date(t).toISOString(): the text of the instant t
toISOString(t) == <<"ISO-8601", t>>

\* res.status(429).json({error, message}) of the default handler
defaultHandler(req) ==
    [req EXCEPT !.statusCode = 429,
                !.body = [error |-> "Too Many Requests",
                          message |-> "You have exceeded the rate limit. Please try again later."],
                !.stage = "rejected"]

\* mutant of RateLimiterMiddlewareResume: the rejection does not return, and
\* the middleware goes on to next()
RateLimiterMiddlewareFallsThrough(req, result, n) ==
    LET cfg == req.config
        hdr == ("X-RateLimit-Limit" :> cfg.maxRequests)
                 @@ ("X-RateLimit-Remaining" :> result.remaining)
                 @@ ("X-RateLimit-Reset" :> toISOString(result.resetAt))
        got == [req EXCEPT !.result = result, !.entry = n, !.headers = hdr]
    IN  IF ~result.allowed
        THEN [defaultHandler([got EXCEPT !.headers =
                                 ("Retry-After" :> Ceil(result.retryAfter, 1000)) @@ hdr])
                EXCEPT !.nextCalls = @ + 1]
        ELSE [got EXCEPT !.endHook = cfg.skipSuccessfulRequests
                                         \/ cfg.skipFailedRequests,
                         !.nextCalls = @ + 1,
                         !.stage = "downstream"]

\* RateLimiter.middleware after the await: the headers, then the rejection
\* or the replacement of res.end and next()
RateLimiterMiddlewareResume(req, result, n) ==
    LET cfg == req.config
        hdr == ("X-RateLimit-Limit" :> cfg.maxRequests)
                 @@ ("X-RateLimit-Remaining" :> result.remaining)
                 @@ ("X-RateLimit-Reset" :> toISOString(result.resetAt))
        got == [req EXCEPT !.result = result, !.entry = n, !.headers = hdr]
    IN  IF ~result.allowed
        THEN LET rej == [got EXCEPT !.headers =
                             ("Retry-After" :> Ceil(result.retryAfter, 1000)) @@ hdr]
             IN  IF cfg.handler # "undefined"
                 THEN defaultHandler(rej)
                 ELSE [rej EXCEPT !.statusCode = 429,
                                  !.body = [error |-> "Too Many Requests",
                                            message |-> "Rate limit exceeded",
                                            retryAfter |-> result.retryAfter],
                                  !.stage = "rejected"]
        ELSE [got EXCEPT !.endHook = cfg.skipSuccessfulRequests
                                         \/ cfg.skipFailedRequests,
                         !.nextCalls = @ + 1,
                         !.stage = "downstream"]

\* DistributedThrottler.middleware after the await; tokensRemaining is an
\* integer (the reply of eval, or burstLimit), which Math.floor leaves
ThrottlerMiddlewareResume(req, result, n) ==
    LET hdr == ("X-Throttle-Limit" :> req.config.burstLimit)
                 @@ ("X-Throttle-Remaining" :> result.tokensRemaining)
        got == [req EXCEPT !.result = result, !.entry = n, !.headers = hdr]
    IN  IF ~result.allowed
        THEN [got EXCEPT !.headers =
                             ("Retry-After" :> FCeil(FDiv(result.retryAfter, FOf(1000))))
                               @@ hdr,
                         !.statusCode = 429,
                         !.body = [error |-> "Too Many Requests",
                                   message |-> "Request rate exceeded. Please slow down.",
                                   retryAfter |-> result.retryAfter],
                         !.stage = "rejected"]
        ELSE [got EXCEPT !.nextCalls = @ + 1, !.stage = "downstream"]

\* the requests whose middleware awaits the isAllowed call of process p
Awaiting(p) == {r \in 1..Len(mw) : mw[r].proc = p /\ mw[r].stage = "isAllowed"}

\* the isAllowed call of process p returns result, logged as entry n: the
\* middleware that awaits it, if any, runs on to its end
Return(p, result, n) ==
    IF Awaiting(p) = {}
    THEN UNCHANGED mwVars
    ELSE LET r == CHOOSE x \in Awaiting(p) : TRUE
         IN  /\ mw' = [mw EXCEPT ![r] =
                         IF @.limiter = "throttle"
                         THEN ThrottlerMiddlewareResume(@, result, n)
                         ELSE RateLimiterMiddlewareResume(@, result, n)]
             /\ UNCHANGED <<baseConfig, performanceMetrics, failures>>

----------------------------------------------------------------------------
(* RateLimiter (fixed window).                                             *)

\* `${keyPrefix}:${key}:${window}`
windowKey(cfg, key, window) ==
    cfg.keyPrefix \o ":" \o key \o ":" \o ToString(window)

\* mutant of RateLimitResult: the ceiling itself is already rejected
RateLimitResultStrict(cfg, count, now, window) ==
    LET allowed   == count < cfg.maxRequests
        remaining == Max(0, cfg.maxRequests - count)
        resetAt   == (window + 1) * cfg.windowMs
    IN  IF ~allowed
        THEN [allowed |-> allowed, remaining |-> remaining, resetAt |-> resetAt,
              retryAfter |-> resetAt - now]
        ELSE [allowed |-> allowed, remaining |-> remaining, resetAt |-> resetAt]

\* mutant of RateLimitResult: the reset is a full window after now, as in
\* the catch block, instead of the end of the window
RateLimitResultRolling(cfg, count, now, window) ==
    LET allowed   == count <= cfg.maxRequests
        remaining == Max(0, cfg.maxRequests - count)
        resetAt   == now + cfg.windowMs
    IN  IF ~allowed
        THEN [allowed |-> allowed, remaining |-> remaining, resetAt |-> resetAt,
              retryAfter |-> resetAt - now]
        ELSE [allowed |-> allowed, remaining |-> remaining, resetAt |-> resetAt]

\* the object isAllowed returns from the counter value it read
RateLimitResult(cfg, count, now, window) ==
    LET allowed   == count <= cfg.maxRequests
        remaining == Max(0, cfg.maxRequests - count)
        resetAt   == (window + 1) * cfg.windowMs
    IN  IF ~allowed
        THEN [allowed |-> allowed, remaining |-> remaining, resetAt |-> resetAt,
              retryAfter |-> resetAt - now]
        ELSE [allowed |-> allowed, remaining |-> remaining, resetAt |-> resetAt]

\* a catch block that rejects
RateLimitFailClosed(cfg, now) ==
    [allowed |-> FALSE, remaining |-> 0, resetAt |-> now + cfg.windowMs]

\* the object isAllowed returns from its catch block
RateLimitFailOpen(cfg, now) ==
    [allowed |-> TRUE, remaining |-> cfg.maxRequests, resetAt |-> now + cfg.windowMs]

Idle(p) == pc[p] = "idle"

\* number of checks issued so far: returned or in flight
Issued == Len(log) + Cardinality({p \in DOMAIN pc : pc[p] # "idle"})

\* isAllowed(key, weight) of a RateLimiter with configuration cfg, up to its
\* first await: reads the clock, derives the window
RateLimiterCall(p, cfg, key, weight) ==
    /\ Idle(p)
    /\ LET now    == clock + skew[p]
           window == Floor(now, cfg.windowMs)
       IN  loc' = [loc EXCEPT ![p] =
                     [limiter |-> "fixed", key |-> key, weight |-> weight,
                      now |-> now, window |-> window,
                      windowKey |-> windowKey(cfg, key, window),
                      begun |-> Len(log)]]
    /\ pc' = [pc EXCEPT ![p] = "incrby"]
    /\ UNCHANGED <<clock, storeUp, throttle, sliding, skew, redis, log>>

\* isAllowed(key, weight) called directly
RateLimiterBegin(p, key, weight) ==
    /\ RateLimiterCall(p, config, key, weight)
    /\ UNCHANGED <<mwVars, config>>

\* the entry of the log for a returned RateLimiter.isAllowed call
RateLimitEntry(l, count, result) ==
    [limiter |-> "fixed", key |-> l.key, weight |-> l.weight, now |-> l.now,
     window |-> l.window, begun |-> l.begun, count |-> count, result |-> result]

\* mutant of RateLimiterIncrby: a check over the ceiling leaves the counter
\* as it was (compare first, count only what is admitted)
RateLimiterIncrbyAdmittedOnly(p) ==
    /\ pc[p] = "incrby"
    /\ storeUp
    /\ LET l     == loc[p]
           count == IncrbyReply(redis, l.windowKey, l.weight)
       IN  /\ redis' = IF count > config.maxRequests
                       THEN redis
                       ELSE Incrby(redis, l.windowKey, l.weight)
           /\ IF count = l.weight
              THEN /\ pc' = [pc EXCEPT ![p] = "expire"]
                   /\ loc' = [loc EXCEPT ![p] = l @@ [count |-> count]]
                   /\ log' = log
              ELSE /\ pc' = [pc EXCEPT ![p] = "idle"]
                   /\ loc' = [loc EXCEPT ![p] = <<>>]
                   /\ log' = Append(log, RateLimitEntry(l, count,
                                 RateLimitResult(config, count, l.now, l.window)))
    /\ UNCHANGED <<mwVars, clock, storeUp, config, throttle, sliding, skew>>

\* the store executes INCRBY and the call resumes: when the counter is not
\* fresh the call returns, otherwise it goes on to EXPIRE
RateLimiterIncrby(p) ==
    /\ pc[p] = "incrby"
    /\ storeUp
    /\ LET l     == loc[p]
           count == IncrbyReply(redis, l.windowKey, l.weight)
       IN  /\ redis' = Incrby(redis, l.windowKey, l.weight)
           /\ IF count = l.weight
              THEN /\ pc' = [pc EXCEPT ![p] = "expire"]
                   /\ loc' = [loc EXCEPT ![p] = l @@ [count |-> count]]
                   /\ log' = log
                   /\ UNCHANGED mwVars
              ELSE /\ pc' = [pc EXCEPT ![p] = "idle"]
                   /\ loc' = [loc EXCEPT ![p] = <<>>]
                   /\ log' = Append(log, RateLimitEntry(l, count,
                                 RateLimitResult(config, count, l.now, l.window)))
                   /\ Return(p, RateLimitResult(config, count, l.now, l.window),
                             Len(log) + 1)
    /\ UNCHANGED <<clock, storeUp, config, throttle, sliding, skew>>

\* the store executes EXPIRE on the fresh counter and the call returns
RateLimiterExpire(p) ==
    /\ pc[p] = "expire"
    /\ loc[p].limiter = "fixed"
    /\ storeUp
    /\ LET l == loc[p]
       IN  /\ redis' = Expire(redis, l.windowKey, Ceil(config.windowMs, 1000), clock)
           /\ log' = Append(log, RateLimitEntry(l, l.count,
                         RateLimitResult(config, l.count, l.now, l.window)))
           /\ Return(p, RateLimitResult(config, l.count, l.now, l.window),
                     Len(log) + 1)
    /\ pc' = [pc EXCEPT ![p] = "idle"]
    /\ loc' = [loc EXCEPT ![p] = <<>>]
    /\ UNCHANGED <<clock, storeUp, config, throttle, sliding, skew>>

\* a store call of RateLimiter.isAllowed throws and the catch block returns
RateLimiterCatch(p) ==
    /\ pc[p] \in {"incrby", "expire"}
    /\ loc[p].limiter = "fixed"
    /\ ~storeUp
    /\ log' = Append(log, [limiter |-> "fixed", key |-> loc[p].key,
                           weight |-> loc[p].weight, now |-> loc[p].now,
                           window |-> loc[p].window, begun |-> loc[p].begun,
                           threw |-> TRUE,
                           result |-> RateLimitFailOpen(config, loc[p].now)])
    /\ Return(p, RateLimitFailOpen(config, loc[p].now), Len(log) + 1)
    /\ pc' = [pc EXCEPT ![p] = "idle"]
    /\ loc' = [loc EXCEPT ![p] = <<>>]
    /\ UNCHANGED <<clock, storeUp, config, throttle, sliding, skew, redis>>

\* time passes: the store drops the keys whose expiry is reached
Tick(step) ==
    /\ clock' = clock + step
    /\ redis' = Purge(redis, clock')
    /\ UNCHANGED <<mwVars, storeUp, config, throttle, sliding, skew, pc, loc, log>>

----------------------------------------------------------------------------
(* DistributedThrottler (token bucket evaluated by a script in the store). *)
(* now, last_refill and time_passed are whole numbers of milliseconds and  *)
(* are held as integers; token levels, the refill rate and retryAfter are  *)
(* doubles.  HMSET writes a level as the decimal string of the double,     *)
(* which tonumber reads back as the same double: the record holds the      *)
(* double.  The specifications advance the clocks in whole seconds, for    *)
(* which every number computed here is held exactly.                       *)

\* `${keyPrefix}:${key}`
redisKey(cfg, key) == cfg.keyPrefix \o ":" \o key

\* sustained_limit / (window_ms / 1000), tokens per second
refillRate(cfg) == FDiv(FOf(cfg.sustainedLimit), FDiv(FOf(cfg.windowMs), FOf(1000)))

\* HMGET key tokens last_refill, with the script's defaults for a missing record
BucketRead(store, key, cfg, now) ==
    IF key \in DOMAIN store
    THEN [tokens |-> store[key].tokens, last_refill |-> store[key].last_refill]
    ELSE [tokens |-> FOf(cfg.burstLimit), last_refill |-> now]

\* mutant of Refill: the refilled level is not capped at burst_limit
RefillUnclamped(cfg, data, now) ==
    LET time_passed == now - data.last_refill
    IN  FAdd(data.tokens, FMul(FDiv(FOf(time_passed), FOf(1000)), refillRate(cfg)))

\* the script's new_tokens before the comparison with cost
Refill(cfg, data, now) ==
    LET time_passed == now - data.last_refill
    IN  FMin(FOf(cfg.burstLimit),
             FAdd(data.tokens, FMul(FDiv(FOf(time_passed), FOf(1000)), refillRate(cfg))))

\* the table the script returns: {1, new_tokens - cost} or {0, new_tokens}
ScriptReturn(store, key, cfg, cost, now) ==
    LET new_tokens == Refill(cfg, BucketRead(store, key, cfg, now), now)
    IN  IF FCmp(new_tokens, FOf(cost)) >= 0
        THEN <<1, FSub(new_tokens, FOf(cost))>>
        ELSE <<0, new_tokens>>

\* what the script writes when it returns ret: HMSET key tokens ..
\* last_refill now, then EXPIRE key window_ms / 1000, at store time t
ScriptWrite(store, key, cfg, ret, now, t) ==
    (key :> [kind |-> "hash",
             tokens |-> ret[2],
             last_refill |-> now,
             expireAt |-> {t + (cfg.windowMs \div 1000) * 1000}]) @@ store

\* what eval resolves to: the store sends each Lua number of the returned
\* table as an integer reply
ScriptReply(ret) == <<ret[1], FTrunc(ret[2])>>

\* the object isAllowed returns from the script's reply
ThrottleResult(cfg, cost, reply) ==
    IF reply[1] = 0
    THEN [allowed |-> FALSE, tokensRemaining |-> reply[2],
          retryAfter |-> FMul(FDiv(FOf(cost - reply[2]), refillRate(cfg)), FOf(1000))]
    ELSE [allowed |-> TRUE, tokensRemaining |-> reply[2]]

\* the object isAllowed returns from its catch block
ThrottleFailOpen(cfg) ==
    [allowed |-> TRUE, tokensRemaining |-> cfg.burstLimit]

\* isAllowed(key, cost) up to its await: builds the key and reads the clock
ThrottlerCall(p, key, cost) ==
    /\ Idle(p)
    /\ loc' = [loc EXCEPT ![p] =
                 [limiter |-> "throttle", key |-> key, cost |-> cost,
                  redisKey |-> redisKey(throttle, key),
                  now |-> clock + skew[p], begun |-> Len(log)]]
    /\ pc' = [pc EXCEPT ![p] = "eval"]
    /\ UNCHANGED <<clock, storeUp, config, throttle, sliding, skew, redis, log>>

\* isAllowed(key, cost) called directly
ThrottlerBegin(p, key, cost) ==
    /\ ThrottlerCall(p, key, cost)
    /\ UNCHANGED mwVars

\* mutant of ThrottlerEval: read, compare and write are not one transaction;
\* a call that began before any other returned decides on the bucket as it
\* was then (no record), whatever the others have written since
ThrottlerEvalStale(p) ==
    /\ pc[p] = "eval"
    /\ storeUp
    /\ LET l    == loc[p]
           seen == IF l.begun = 0 THEN <<>> ELSE redis
           ret  == ScriptReturn(seen, l.redisKey, throttle, l.cost, l.now)
       IN  /\ redis' = ScriptWrite(seen, l.redisKey, throttle, ret, l.now, clock) @@ redis
           /\ log' = Append(log, [limiter |-> "throttle", key |-> l.key,
                                  cost |-> l.cost, now |-> l.now, begun |-> l.begun,
                                  level |-> ret[2],
                                  result |-> ThrottleResult(throttle, l.cost,
                                                            ScriptReply(ret))])
    /\ pc' = [pc EXCEPT ![p] = "idle"]
    /\ loc' = [loc EXCEPT ![p] = <<>>]
    /\ UNCHANGED <<mwVars, clock, storeUp, config, throttle, sliding, skew>>

\* the store evaluates the script atomically and the call returns
ThrottlerEval(p) ==
    /\ pc[p] = "eval"
    /\ storeUp
    /\ LET l   == loc[p]
           ret == ScriptReturn(redis, l.redisKey, throttle, l.cost, l.now)
       IN  /\ redis' = ScriptWrite(redis, l.redisKey, throttle, ret, l.now, clock)
           /\ log' = Append(log, [limiter |-> "throttle", key |-> l.key,
                                  cost |-> l.cost, now |-> l.now, begun |-> l.begun,
                                  level |-> ret[2],
                                  result |-> ThrottleResult(throttle, l.cost,
                                                            ScriptReply(ret))])
           /\ Return(p, ThrottleResult(throttle, l.cost, ScriptReply(ret)),
                     Len(log) + 1)
    /\ pc' = [pc EXCEPT ![p] = "idle"]
    /\ loc' = [loc EXCEPT ![p] = <<>>]
    /\ UNCHANGED <<clock, storeUp, config, throttle, sliding, skew>>

\* redis().eval throws and the catch block returns
ThrottlerCatch(p) ==
    /\ pc[p] = "eval"
    /\ ~storeUp
    /\ log' = Append(log, [limiter |-> "throttle", key |-> loc[p].key,
                           cost |-> loc[p].cost, now |-> loc[p].now,
                           begun |-> loc[p].begun, threw |-> TRUE,
                           result |-> ThrottleFailOpen(throttle)])
    /\ Return(p, ThrottleFailOpen(throttle), Len(log) + 1)
    /\ pc' = [pc EXCEPT ![p] = "idle"]
    /\ loc' = [loc EXCEPT ![p] = <<>>]
    /\ UNCHANGED <<clock, storeUp, config, throttle, sliding, skew, redis>>
----------------------------------------------------------------------------
(* SlidingWindowRateLimiter.  The four commands of the pipeline are sent   *)
(* together but are no transaction: the store executes them one by one,    *)
(* in order, and may execute another client's commands in between.  A      *)
(* sorted set is the set of its members [score, tag]; the member string    *)
(* `${now}:${hex}` of an entry is given by its score and its random tag.   *)

\* mutant of slidingKey: one sorted set for all the keys
slidingKeyShared(key) == "sliding:"

\* `sliding:${key}`
slidingKey(key) == "sliding:" \o key

\* ZREMRANGEBYSCORE key -inf max: a sorted set left empty is removed
Zremrangebyscore(store, key, max) ==
    IF key \notin DOMAIN store THEN store
    ELSE LET kept == {m \in store[key].members : m.score > max}
         IN  IF kept = {}
             THEN [k \in DOMAIN store \ {key} |-> store[k]]
             ELSE [store EXCEPT ![key].members = kept]

\* ZADD key score member: a member already there is not added twice
Zadd(store, key, member) ==
    IF key \in DOMAIN store
    THEN [store EXCEPT ![key].members = @ \cup {member}]
    ELSE (key :> [kind |-> "zset", members |-> {member}, expireAt |-> {}]) @@ store

\* ZCOUNT key min max
Zcount(store, key, min, max) ==
    IF key \in DOMAIN store
    THEN Cardinality({m \in store[key].members : min <= m.score /\ m.score <= max})
    ELSE 0

\* isAllowed(key) of the limiter built with cfg, up to its await: reads the
\* clock, draws the random tag and queues the four commands
SlidingCall(p, cfg, key, tag) ==
    /\ Idle(p)
    /\ sliding' = cfg
    /\ LET now == clock + skew[p]
       IN  loc' = [loc EXCEPT ![p] =
                     [limiter |-> "sliding", key |-> key, redisKey |-> slidingKey(key),
                      now |-> now, windowStart |-> now - cfg.windowMs,
                      member |-> [score |-> now, tag |-> tag],
                      config |-> cfg, begun |-> Len(log)]]
    /\ pc' = [pc EXCEPT ![p] = "zremrangebyscore"]
    /\ UNCHANGED <<mwVars, clock, storeUp, config, throttle, skew, redis, log>>

\* isAllowed(key) of the one limiter of a specification
SlidingBegin(p, key, tag) == SlidingCall(p, sliding, key, tag)

\* the store executes the first command of the pipeline
SlidingZremrangebyscore(p) ==
    /\ pc[p] = "zremrangebyscore"
    /\ storeUp
    /\ redis' = Zremrangebyscore(redis, loc[p].redisKey, loc[p].windowStart)
    /\ pc' = [pc EXCEPT ![p] = "zadd"]
    /\ UNCHANGED <<mwVars, clock, storeUp, config, throttle, sliding, skew, loc, log>>

\* the store executes the second command of the pipeline
SlidingZadd(p) ==
    /\ pc[p] = "zadd"
    /\ storeUp
    /\ redis' = Zadd(redis, loc[p].redisKey, loc[p].member)
    /\ pc' = [pc EXCEPT ![p] = "zcount"]
    /\ UNCHANGED <<mwVars, clock, storeUp, config, throttle, sliding, skew, loc, log>>

\* the store executes the third command of the pipeline
SlidingZcount(p) ==
    /\ pc[p] = "zcount"
    /\ storeUp
    /\ loc' = [loc EXCEPT ![p] = loc[p] @@
                 [count |-> Zcount(redis, loc[p].redisKey, loc[p].windowStart, loc[p].now)]]
    /\ pc' = [pc EXCEPT ![p] = "expire"]
    /\ UNCHANGED <<mwVars, clock, storeUp, config, throttle, sliding, skew, redis, log>>

\* the entry of the log for a returned SlidingWindowRateLimiter.isAllowed call
SlidingEntry(l, count, result) ==
    [limiter |-> "sliding", key |-> l.key, now |-> l.now, tag |-> l.member.tag,
     begun |-> l.begun, count |-> count, result |-> result,
     config |-> l.config, redisKey |-> l.redisKey]

\* the store executes the last command of the pipeline, exec() resolves and
\* the call returns count <= maxRequests
SlidingExpire(p) ==
    /\ pc[p] = "expire"
    /\ loc[p].limiter = "sliding"
    /\ storeUp
    /\ redis' = Expire(redis, loc[p].redisKey, Ceil(sliding.windowMs, 1000), clock)
    /\ log' = Append(log, SlidingEntry(loc[p], loc[p].count,
                                       loc[p].count <= sliding.maxRequests))
    /\ pc' = [pc EXCEPT ![p] = "idle"]
    /\ loc' = [loc EXCEPT ![p] = <<>>]
    /\ UNCHANGED <<mwVars, clock, storeUp, config, throttle, sliding, skew>>

\* every command of the pipeline fails and exec() resolves with the errors:
\* results[2][1] is undefined and count becomes 0
SlidingExecErrors(p) ==
    /\ pc[p] = "zremrangebyscore"
    /\ ~storeUp
    /\ log' = Append(log, SlidingEntry(loc[p], 0, 0 <= sliding.maxRequests))
    /\ pc' = [pc EXCEPT ![p] = "idle"]
    /\ loc' = [loc EXCEPT ![p] = <<>>]
    /\ UNCHANGED <<mwVars, clock, storeUp, config, throttle, sliding, skew, redis>>

\* what the catch block of SlidingWindowRateLimiter.isAllowed returns
SlidingFailOpen == TRUE

\* redis(), pipeline() or exec() throws and the catch block returns
SlidingCatch(p) ==
    /\ pc[p] = "zremrangebyscore"
    /\ ~storeUp
    /\ log' = Append(log, [limiter |-> "sliding", key |-> loc[p].key,
                           now |-> loc[p].now, tag |-> loc[p].member.tag,
                           begun |-> loc[p].begun, threw |-> TRUE,
                           result |-> SlidingFailOpen])
    /\ pc' = [pc EXCEPT ![p] = "idle"]
    /\ loc' = [loc EXCEPT ![p] = <<>>]
    /\ UNCHANGED <<mwVars, clock, storeUp, config, throttle, sliding, skew, redis>>

----------------------------------------------------------------------------
(* Requests through the middlewares.  A request enters a middleware, which *)
(* calls isAllowed; when isAllowed returns (Return) the middleware rejects *)
(* the request or hands it to the downstream handler, which later sets     *)
(* the status and ends the response.                                       *)

\* RateLimiter.middleware up to its await, for a request that config.skip
\* does not exempt: key and weight are drawn from the request
RateLimiterMiddleware(p, key, weight) ==
    /\ RateLimiterCall(p, config, key, weight)
    /\ mw' = Append(mw, Request(p, "fixed", config, key, weight))
    /\ UNCHANGED <<config, baseConfig, performanceMetrics, failures>>

\* RateLimiter.middleware for a request that config.skip exempts: next()
\* before a key or a weight is drawn
RateLimiterMiddlewareSkip(p) ==
    /\ "skip" \in DOMAIN config
    /\ mw' = Append(mw, [Request(p, "fixed", config, "", 0) EXCEPT
                            !.skipped = TRUE, !.nextCalls = 1, !.stage = "downstream"])
    /\ UNCHANGED <<clock, storeUp, config, throttle, sliding, skew, redis, pc, loc, log,
                   baseConfig, performanceMetrics, failures>>

\* DistributedThrottler.middleware up to its await
ThrottlerMiddleware(p, key, cost) ==
    /\ ThrottlerCall(p, key, cost)
    /\ mw' = Append(mw, Request(p, "throttle", throttle, key, cost))
    /\ UNCHANGED <<baseConfig, performanceMetrics, failures>>

\* shouldRefund of the replaced res.end
shouldRefund(req, statusCode) ==
    \/ statusCode < 400 /\ req.config.skipSuccessfulRequests
    \/ statusCode >= 400 /\ req.config.skipFailedRequests

\* res.end was replaced for the request and refunds at this status
Refunds(req, statusCode) == req.endHook /\ shouldRefund(req, statusCode)

\* the key the replaced res.end decrements: the window of the time of res.end
refundKey(req) ==
    windowKey(req.config, req.key,
              Floor(clock + skew[req.proc], req.config.windowMs))

\* mutant of ResponseEnd: the refund goes to the window in which the request
\* was counted
ResponseEndCountedWindow(r, statusCode) ==
    /\ r \in 1..Len(mw)
    /\ mw[r].stage = "downstream"
    /\ IF Refunds(mw[r], statusCode)
       THEN /\ storeUp
            /\ redis' = Decrby(redis, windowKey(mw[r].config, mw[r].key,
                                                log[mw[r].entry].window),
                               mw[r].weight)
            /\ mw' = [mw EXCEPT ![r].statusCode = statusCode,
                                ![r].stage = "ended",
                                ![r].endedAt = clock + skew[mw[r].proc],
                                ![r].refund = <<refundKey(mw[r]), mw[r].weight>>]
       ELSE /\ redis' = redis
            /\ mw' = [mw EXCEPT ![r].statusCode = statusCode,
                                ![r].stage = "ended",
                                ![r].endedAt = clock + skew[mw[r].proc]]
    /\ UNCHANGED <<clock, storeUp, config, throttle, sliding, skew, pc, loc, log,
                   baseConfig, performanceMetrics, failures>>

\* mutant of ResponseEnd: the refund gives back one unit, whatever the weight
ResponseEndRefundsOne(r, statusCode) ==
    /\ r \in 1..Len(mw)
    /\ mw[r].stage = "downstream"
    /\ IF Refunds(mw[r], statusCode)
       THEN /\ storeUp
            /\ redis' = Decrby(redis, refundKey(mw[r]), 1)
            /\ mw' = [mw EXCEPT ![r].statusCode = statusCode,
                                ![r].stage = "ended",
                                ![r].endedAt = clock + skew[mw[r].proc],
                                ![r].refund = <<refundKey(mw[r]), mw[r].weight>>]
       ELSE /\ redis' = redis
            /\ mw' = [mw EXCEPT ![r].statusCode = statusCode,
                                ![r].stage = "ended",
                                ![r].endedAt = clock + skew[mw[r].proc]]
    /\ UNCHANGED <<clock, storeUp, config, throttle, sliding, skew, pc, loc, log,
                   baseConfig, performanceMetrics, failures>>

\* the downstream handler sets the status and calls res.end: the replaced
\* res.end sends DECRBY when it refunds, without awaiting the reply, and
\* calls the original res.end
ResponseEnd(r, statusCode) ==
    /\ r \in 1..Len(mw)
    /\ mw[r].stage = "downstream"
    /\ IF Refunds(mw[r], statusCode)
       THEN /\ storeUp
            /\ redis' = Decrby(redis, refundKey(mw[r]), mw[r].weight)
            /\ mw' = [mw EXCEPT ![r].statusCode = statusCode,
                                ![r].stage = "ended",
                                ![r].endedAt = clock + skew[mw[r].proc],
                                ![r].refund = <<refundKey(mw[r]), mw[r].weight>>]
       ELSE /\ redis' = redis
            /\ mw' = [mw EXCEPT ![r].statusCode = statusCode,
                                ![r].stage = "ended",
                                ![r].endedAt = clock + skew[mw[r].proc]]
    /\ UNCHANGED <<clock, storeUp, config, throttle, sliding, skew, pc, loc, log,
                   baseConfig, performanceMetrics, failures>>

\* res.end refunds while the store client is missing: redis() throws inside
\* the replaced res.end, outside any try; the original res.end is not
\* reached and the exception goes to the caller of res.end
ResponseEndThrows(r, statusCode) ==
    /\ r \in 1..Len(mw)
    /\ mw[r].stage = "downstream"
    /\ Refunds(mw[r], statusCode)
    /\ ~storeUp
    /\ mw' = [mw EXCEPT ![r].statusCode = statusCode, ![r].stage = "threw"]
    /\ failures' = failures \cup {[request |-> r, failure |-> "exception"]}
    /\ UNCHANGED <<clock, storeUp, config, throttle, sliding, skew, redis, pc, loc, log,
                   baseConfig, performanceMetrics>>

\* res.end refunds while the store is unreachable: the promise of decrby,
\* which nothing awaits or catches, is rejected; the response is ended
ResponseEndRejects(r, statusCode) ==
    /\ r \in 1..Len(mw)
    /\ mw[r].stage = "downstream"
    /\ Refunds(mw[r], statusCode)
    /\ ~storeUp
    /\ mw' = [mw EXCEPT ![r].statusCode = statusCode,
                        ![r].stage = "ended",
                        ![r].endedAt = clock + skew[mw[r].proc],
                        ![r].refund = <<refundKey(mw[r]), mw[r].weight>>]
    /\ failures' = failures \cup {[request |-> r, failure |-> "unhandledRejection"]}
    /\ UNCHANGED <<clock, storeUp, config, throttle, sliding, skew, redis, pc, loc, log,
                   baseConfig, performanceMetrics>>

----------------------------------------------------------------------------
(* AdaptiveRateLimiter.  errors / total and totalResponseTime / total are  *)
(* doubles in the code; for the counts of the specifications the quotient  *)
(* differs from 0.1, 0.05, 0.01 and 100 by far more than a rounding error  *)
(* unless it equals them exactly, in which case the division yields the    *)
(* very double of the literal: the comparisons are those of the exact      *)
(* fractions.  limit * 0.5, limit * 0.75 and limit * 1.5 are exact.        *)

\* mutant of getDynamicLimit: the thresholds themselves already reduce
getDynamicLimitInclusive(metrics, base, key) ==
    IF key \notin DOMAIN metrics
    THEN base.maxRequests
    ELSE LET m       == metrics[key]
             reduced == IF 10 * m.errors >= m.total
                        THEN Floor(base.maxRequests * 5, 10)
                        ELSE IF 20 * m.errors >= m.total
                             THEN Floor(base.maxRequests * 75, 100)
                             ELSE base.maxRequests
         IN  IF 100 * m.errors < m.total /\ m.totalResponseTime < 100 * m.total
             THEN Floor(reduced * 15, 10)
             ELSE reduced

\* getDynamicLimit(key)
getDynamicLimit(metrics, base, key) ==
    IF key \notin DOMAIN metrics
    THEN base.maxRequests
    ELSE LET m       == metrics[key]
             reduced == IF 10 * m.errors > m.total
                        THEN Floor(base.maxRequests * 5, 10)
                        ELSE IF 20 * m.errors > m.total
                             THEN Floor(base.maxRequests * 75, 100)
                             ELSE base.maxRequests
         IN  IF 100 * m.errors < m.total /\ m.totalResponseTime < 100 * m.total
             THEN Floor(reduced * 15, 10)
             ELSE reduced

\* AdaptiveRateLimiter.middleware up to the await of isAllowed: the key,
\* the dynamic limit, a new RateLimiter with it, and that limiter's
\* middleware; config holds the configuration of the limiter in use
AdaptiveMiddleware(p, key, weight) ==
    /\ "keyGenerator" \in DOMAIN baseConfig
    /\ \A q \in DOMAIN pc : Idle(q)
    /\ LET dynamicConfig ==
               RateLimiterConfig([baseConfig EXCEPT !.maxRequests =
                                     getDynamicLimit(performanceMetrics, baseConfig, key)])
       IN  /\ config' = dynamicConfig
           /\ RateLimiterCall(p, dynamicConfig, key, weight)
           /\ mw' = Append(mw, Request(p, "adaptive", dynamicConfig, key, weight))
    /\ UNCHANGED <<baseConfig, performanceMetrics, failures>>

\* the profile recordMetric starts from
NoMetric(now) == [total |-> 0, errors |-> 0, totalResponseTime |-> 0, lastUpdate |-> now]

\* recordMetric(key, responseTime, statusCode), called from outside
RecordMetric(key, responseTime, statusCode) ==
    /\ LET m == IF key \in DOMAIN performanceMetrics
                THEN performanceMetrics[key]
                ELSE NoMetric(clock)
       IN  performanceMetrics' =
               (key :> [total |-> m.total + 1,
                        errors |-> IF statusCode >= 400 THEN m.errors + 1 ELSE m.errors,
                        totalResponseTime |-> m.totalResponseTime + responseTime,
                        lastUpdate |-> clock])
                 @@ performanceMetrics
    /\ UNCHANGED <<clock, storeUp, config, throttle, sliding, skew, redis, pc, loc, log,
                   mw, baseConfig, failures>>

\* the timer of startMetricsCollection fires, every minute: the profiles
\* not updated for more than an hour are deleted
MetricsCollection ==
    /\ clock > 0
    /\ clock % 60000 = 0
    /\ performanceMetrics' =
           [k \in {x \in DOMAIN performanceMetrics :
                      ~(clock - performanceMetrics[x].lastUpdate > 3600000)}
               |-> performanceMetrics[k]]
    /\ UNCHANGED <<clock, storeUp, config, throttle, sliding, skew, redis, pc, loc, log,
                   mw, baseConfig, failures>>

----------------------------------------------------------------------------
(* Inputs. *)

\* no request has entered a middleware yet
NoMiddleware ==
    /\ mw = <<>>
    /\ baseConfig = config
    /\ performanceMetrics = <<>>
    /\ failures = {}

\* LimitKeys as defaultKeyGenerator builds them: `${ip}:${userId}`
Keys == {"10.0.0.1:anonymous"}

\* throttlers.heavy, with the default keyPrefix
HeavyThrottle == [burstLimit |-> 5, sustainedLimit |-> 10, windowMs |-> 60000,
                  keyPrefix |-> "throttle"]

\* burst 10, sustained 10 per 60 s, with the default keyPrefix
RefillThrottle == [burstLimit |-> 10, sustainedLimit |-> 10, windowMs |-> 60000,
                   keyPrefix |-> "throttle"]

\* a bucket of two tokens, which three concurrent checks exhaust
SmallThrottle == [burstLimit |-> 2, sustainedLimit |-> 10, windowMs |-> 60000,
                  keyPrefix |-> "throttle"]

DefaultThrottle == HeavyThrottle

\* the costs calculateCost assigns to a GET, a POST and an upload
Costs == {1, 5, 10}

DefaultSliding == [windowMs |-> 60000, maxRequests |-> 5]

\* a sliding-window policy with a low ceiling
LowSliding == [windowMs |-> 60000, maxRequests |-> 1]

\* a sliding-window policy with a ceiling of two
MidSliding == [windowMs |-> 60000, maxRequests |-> 2]

\* values of crypto.randomBytes(4).toString('hex')
Tags == {"0f3a9c21", "7be4d015"}

\* the policy {windowMs: 60000, maxRequests: 5} with the default keyPrefix
ScenarioConfig == [windowMs |-> 60000, maxRequests |-> 5, keyPrefix |-> "rate-limit"]

\* a policy with a low ceiling, which three concurrent checks can exceed
LowConfig == [windowMs |-> 60000, maxRequests |-> 3, keyPrefix |-> "rate-limit"]

----------------------------------------------------------------------------
(* SpecFW: the fixed-window limiter with the store reachable; three        *)
(* processes issue up to FWMaxChecks concurrent checks on one key while    *)
(* time passes in steps of half a window.                                  *)

FWProcs == {1, 2, 3}

FWWeights == {1, 2}

InitFW ==
    /\ clock = 0
    /\ storeUp = TRUE
    /\ config = LowConfig
    /\ throttle = DefaultThrottle
    /\ sliding = DefaultSliding
    /\ skew = [p \in FWProcs |-> 0]
    /\ redis = <<>>
    /\ pc = [p \in FWProcs |-> "idle"]
    /\ loc = [p \in FWProcs |-> <<>>]
    /\ log = <<>>
    /\ NoMiddleware

NextFW ==
    \/ \E p \in FWProcs, k \in Keys, w \in FWWeights :
          Issued < FWMaxChecks /\ RateLimiterBegin(p, k, w)
    \/ \E p \in FWProcs : RateLimiterIncrby(p)
    \/ \E p \in FWProcs : RateLimiterExpire(p)
    \/ clock < FWMaxTicks * (config.windowMs \div 2) /\ Tick(config.windowMs \div 2)

SpecFW == InitFW /\ [][NextFW]_vars

----------------------------------------------------------------------------
(* SpecFWSeq: one process issues up to SeqMaxChecks checks one after the   *)
(* other under the policy {windowMs: 60000, maxRequests: 5}.               *)

SeqWeights == {0, 1, 2}

InitFWSeq ==
    /\ clock = 0
    /\ storeUp = TRUE
    /\ config = ScenarioConfig
    /\ throttle = DefaultThrottle
    /\ sliding = DefaultSliding
    /\ skew = [p \in {1} |-> 0]
    /\ redis = <<>>
    /\ pc = [p \in {1} |-> "idle"]
    /\ loc = [p \in {1} |-> <<>>]
    /\ log = <<>>
    /\ NoMiddleware

NextFWSeq ==
    \/ \E k \in Keys, w \in SeqWeights :
          Issued < SeqMaxChecks /\ RateLimiterBegin(1, k, w)
    \/ RateLimiterIncrby(1)
    \/ RateLimiterExpire(1)
    \/ clock < SeqMaxTicks * (config.windowMs \div 2) /\ Tick(config.windowMs \div 2)

SpecFWSeq == InitFWSeq /\ [][NextFWSeq]_vars

----------------------------------------------------------------------------
(* SpecTB: throttlers.heavy with the store reachable; two processes, one   *)
(* of which may run with its clock ahead, issue up to TBMaxChecks checks   *)
(* on one key while time passes in steps of a quarter of windowMs.         *)

TBProcs == {1, 2}

TBStep == 60000 \div 4

InitTB ==
    /\ clock = 0
    /\ storeUp = TRUE
    /\ config = ScenarioConfig
    /\ throttle = HeavyThrottle
    /\ sliding = DefaultSliding
    /\ skew \in {[p \in TBProcs |-> IF p = 2 THEN d ELSE 0] : d \in {0, TBStep}}
    /\ redis = <<>>
    /\ pc = [p \in TBProcs |-> "idle"]
    /\ loc = [p \in TBProcs |-> <<>>]
    /\ log = <<>>
    /\ NoMiddleware

NextTB ==
    \/ \E p \in TBProcs, k \in Keys, c \in Costs :
          Issued < TBMaxChecks /\ ThrottlerBegin(p, k, c)
    \/ \E p \in TBProcs : ThrottlerEval(p)
    \/ clock < TBMaxTicks * TBStep /\ Tick(TBStep)

SpecTB == InitTB /\ [][NextTB]_vars

----------------------------------------------------------------------------
(* SpecRefill: a bucket of burst 10 refilled at 10 tokens per 60 s, with   *)
(* the store reachable; one process issues up to RefillMaxChecks checks    *)
(* one after the other while time passes in steps of 5 s.                  *)

RefillStep == 60000 \div 12

\* the costs calculateCost assigns to a POST and an upload
RefillCosts == {5, 10}

InitRefill ==
    /\ clock = 0
    /\ storeUp = TRUE
    /\ config = ScenarioConfig
    /\ throttle = RefillThrottle
    /\ sliding = DefaultSliding
    /\ skew = [p \in {1} |-> 0]
    /\ redis = <<>>
    /\ pc = [p \in {1} |-> "idle"]
    /\ loc = [p \in {1} |-> <<>>]
    /\ log = <<>>
    /\ NoMiddleware

NextRefill ==
    \/ \E k \in Keys, c \in RefillCosts :
          Issued < RefillMaxChecks /\ ThrottlerBegin(1, k, c)
    \/ ThrottlerEval(1)
    \/ clock < RefillMaxTicks * RefillStep /\ Tick(RefillStep)

SpecRefill == InitRefill /\ [][NextRefill]_vars

----------------------------------------------------------------------------
(* SpecRetry: the bucket of SpecRefill with the store reachable; one        *)
(* process issues up to RetryMaxChecks checks one after the other while    *)
(* time passes in steps of 10 s.                                           *)

RetryStep == 60000 \div 6

InitRetry ==
    /\ clock = 0
    /\ storeUp = TRUE
    /\ config = ScenarioConfig
    /\ throttle = RefillThrottle
    /\ sliding = DefaultSliding
    /\ skew = [p \in {1} |-> 0]
    /\ redis = <<>>
    /\ pc = [p \in {1} |-> "idle"]
    /\ loc = [p \in {1} |-> <<>>]
    /\ log = <<>>
    /\ NoMiddleware

NextRetry ==
    \/ \E k \in Keys, c \in RefillCosts :
          Issued < RetryMaxChecks /\ ThrottlerBegin(1, k, c)
    \/ ThrottlerEval(1)
    \/ clock < RetryMaxTicks * RetryStep /\ Tick(RetryStep)

SpecRetry == InitRetry /\ [][NextRetry]_vars

----------------------------------------------------------------------------
(* SpecExpiry: throttlers.heavy and a bucket whose burst exceeds what it   *)
(* refills in a window, with the store reachable; one process issues up to *)
(* ExpiryMaxChecks checks one after the other while time passes in steps   *)
(* of 30 s, so that the record of the bucket expires.                      *)

\* burst 10, sustained 5 per 30 s, with the default keyPrefix
BurstyThrottle == [burstLimit |-> 10, sustainedLimit |-> 5, windowMs |-> 30000,
                   keyPrefix |-> "throttle"]

ExpiryThrottles == {HeavyThrottle, BurstyThrottle}

ExpiryStep == 60000 \div 2

InitExpiry ==
    /\ clock = 0
    /\ storeUp = TRUE
    /\ config = ScenarioConfig
    /\ throttle \in ExpiryThrottles
    /\ sliding = DefaultSliding
    /\ skew = [p \in {1} |-> 0]
    /\ redis = <<>>
    /\ pc = [p \in {1} |-> "idle"]
    /\ loc = [p \in {1} |-> <<>>]
    /\ log = <<>>
    /\ NoMiddleware

NextExpiry ==
    \/ \E k \in Keys, c \in RefillCosts :
          Issued < ExpiryMaxChecks /\ ThrottlerBegin(1, k, c)
    \/ ThrottlerEval(1)
    \/ clock < ExpiryMaxTicks * ExpiryStep /\ Tick(ExpiryStep)

SpecExpiry == InitExpiry /\ [][NextExpiry]_vars

----------------------------------------------------------------------------
(* SpecTBBurst: a bucket of burst 2 with the store reachable; three        *)
(* processes issue up to BurstMaxChecks checks of cost 1 on one key while  *)
(* time passes in steps of 6 s.                                            *)

BurstProcs == {1, 2, 3}

BurstStep == 60000 \div 10

InitTBBurst ==
    /\ clock = 0
    /\ storeUp = TRUE
    /\ config = ScenarioConfig
    /\ throttle = SmallThrottle
    /\ sliding = DefaultSliding
    /\ skew = [p \in BurstProcs |-> 0]
    /\ redis = <<>>
    /\ pc = [p \in BurstProcs |-> "idle"]
    /\ loc = [p \in BurstProcs |-> <<>>]
    /\ log = <<>>
    /\ NoMiddleware

NextTBBurst ==
    \/ \E p \in BurstProcs, k \in Keys :
          Issued < BurstMaxChecks /\ ThrottlerBegin(p, k, 1)
    \/ \E p \in BurstProcs : ThrottlerEval(p)
    \/ clock < BurstMaxTicks * BurstStep /\ Tick(BurstStep)

SpecTBBurst == InitTBBurst /\ [][NextTBBurst]_vars

----------------------------------------------------------------------------
(* SpecSW: the sliding-window limiter with the store reachable; two        *)
(* processes issue up to SWMaxChecks checks on one key while time passes   *)
(* in steps of half a window.                                              *)

SWProcs == {1, 2}

InitSW ==
    /\ clock = 0
    /\ storeUp = TRUE
    /\ config = ScenarioConfig
    /\ throttle = DefaultThrottle
    /\ sliding = LowSliding
    /\ skew = [p \in SWProcs |-> 0]
    /\ redis = <<>>
    /\ pc = [p \in SWProcs |-> "idle"]
    /\ loc = [p \in SWProcs |-> <<>>]
    /\ log = <<>>
    /\ NoMiddleware

NextSW ==
    \/ \E p \in SWProcs, k \in Keys, t \in Tags :
          Issued < SWMaxChecks /\ SlidingBegin(p, k, t)
    \/ \E p \in SWProcs : SlidingZremrangebyscore(p)
    \/ \E p \in SWProcs : SlidingZadd(p)
    \/ \E p \in SWProcs : SlidingZcount(p)
    \/ \E p \in SWProcs : SlidingExpire(p)
    \/ clock < SWMaxTicks * (sliding.windowMs \div 2) /\ Tick(sliding.windowMs \div 2)

SpecSW == InitSW /\ [][NextSW]_vars

----------------------------------------------------------------------------
(* SpecSWSeq: the sliding-window limiter with the store reachable; one     *)
(* process issues up to SWSeqMaxChecks checks on one key, one after the    *)
(* other, while time passes in steps of half a window.                     *)

InitSWSeq ==
    /\ clock = 0
    /\ storeUp = TRUE
    /\ config = ScenarioConfig
    /\ throttle = DefaultThrottle
    /\ sliding = MidSliding
    /\ skew = [p \in {1} |-> 0]
    /\ redis = <<>>
    /\ pc = [p \in {1} |-> "idle"]
    /\ loc = [p \in {1} |-> <<>>]
    /\ log = <<>>
    /\ NoMiddleware

NextSWSeq ==
    \/ \E k \in Keys, t \in Tags :
          Issued < SWSeqMaxChecks /\ SlidingBegin(1, k, t)
    \/ SlidingZremrangebyscore(1)
    \/ SlidingZadd(1)
    \/ SlidingZcount(1)
    \/ SlidingExpire(1)
    \/ clock < SWSeqMaxTicks * (sliding.windowMs \div 2) /\ Tick(sliding.windowMs \div 2)

SpecSWSeq == InitSWSeq /\ [][NextSWSeq]_vars

----------------------------------------------------------------------------
(* SpecNamespace: two sliding-window limiters with different keyPrefix and *)
(* ceilings share the store; one process issues up to NamespaceMaxChecks   *)
(* checks, each to either limiter, one after the other while time passes   *)
(* in steps of half a window.                                              *)

SlidingInstances ==
    {[windowMs |-> 60000, maxRequests |-> 1, keyPrefix |-> "login"],
     [windowMs |-> 60000, maxRequests |-> 2, keyPrefix |-> "search"]}

InitNamespace ==
    /\ clock = 0
    /\ storeUp = TRUE
    /\ config = ScenarioConfig
    /\ throttle = DefaultThrottle
    /\ sliding \in SlidingInstances
    /\ skew = [p \in {1} |-> 0]
    /\ redis = <<>>
    /\ pc = [p \in {1} |-> "idle"]
    /\ loc = [p \in {1} |-> <<>>]
    /\ log = <<>>
    /\ NoMiddleware

NextNamespace ==
    \/ \E cfg \in SlidingInstances, k \in Keys, t \in Tags :
          Issued < NamespaceMaxChecks /\ SlidingCall(1, cfg, k, t)
    \/ SlidingZremrangebyscore(1)
    \/ SlidingZadd(1)
    \/ SlidingZcount(1)
    \/ SlidingExpire(1)
    \/ clock < NamespaceMaxTicks * (sliding.windowMs \div 2) /\ Tick(sliding.windowMs \div 2)

SpecNamespace == InitNamespace /\ [][NextNamespace]_vars

----------------------------------------------------------------------------
(* SpecMisconfig: the three limiters are built from options whose ceiling  *)
(* may be zero or negative; one process issues up to MisconfigMaxChecks    *)
(* checks, each to one of the limiters, one after the other while time     *)
(* passes in steps of half a window.                                       *)

\* constructor(config) of DistributedThrottler: the options over the default
DistributedThrottlerConfig(options) == options @@ [keyPrefix |-> "throttle"]

\* constructor(config) of SlidingWindowRateLimiter: the options as given
SlidingWindowRateLimiterConfig(options) == options

InitMisconfig ==
    /\ clock = 0
    /\ storeUp = TRUE
    /\ config \in {RateLimiterConfig([windowMs |-> 60000, maxRequests |-> n]) :
                      n \in {-1, 0, 2}}
    /\ throttle \in {DistributedThrottlerConfig(
                         [burstLimit |-> b, sustainedLimit |-> 10, windowMs |-> 60000]) :
                        b \in {0, 5}}
    /\ sliding \in {SlidingWindowRateLimiterConfig(
                        [windowMs |-> 60000, maxRequests |-> n]) : n \in {0, 2}}
    /\ skew = [p \in {1} |-> 0]
    /\ redis = <<>>
    /\ pc = [p \in {1} |-> "idle"]
    /\ loc = [p \in {1} |-> <<>>]
    /\ log = <<>>
    /\ NoMiddleware

NextMisconfig ==
    \/ \E k \in Keys : Issued < MisconfigMaxChecks /\ RateLimiterBegin(1, k, 1)
    \/ RateLimiterIncrby(1)
    \/ RateLimiterExpire(1)
    \/ \E k \in Keys : Issued < MisconfigMaxChecks /\ ThrottlerBegin(1, k, 1)
    \/ ThrottlerEval(1)
    \/ \E k \in Keys, t \in Tags :
          Issued < MisconfigMaxChecks /\ SlidingBegin(1, k, t)
    \/ SlidingZremrangebyscore(1)
    \/ SlidingZadd(1)
    \/ SlidingZcount(1)
    \/ SlidingExpire(1)
    \/ clock < MisconfigMaxTicks * (config.windowMs \div 2) /\ Tick(config.windowMs \div 2)

SpecMisconfig == InitMisconfig /\ [][NextMisconfig]_vars

----------------------------------------------------------------------------
(* SpecRefund: requests pass through the middleware of a fixed-window      *)
(* limiter built with each combination of skipSuccessfulRequests and       *)
(* skipFailedRequests; their isAllowed calls follow one another, their     *)
(* responses end at any later time, in any order, with status 200 or 500.  *)

RefundPolicies ==
    {RateLimiterConfig([windowMs |-> 15 * 60 * 1000, maxRequests |-> 2,
                        keyPrefix |-> "auth",
                        skipSuccessfulRequests |-> s, skipFailedRequests |-> f]) :
        s \in BOOLEAN, f \in BOOLEAN}

RefundWeights == {1, 2}

\* the status the downstream handler sets
Statuses == {200, 500}

InitRefund ==
    /\ clock = 0
    /\ storeUp = TRUE
    /\ config \in RefundPolicies
    /\ throttle = DefaultThrottle
    /\ sliding = DefaultSliding
    /\ skew = [p \in {1} |-> 0]
    /\ redis = <<>>
    /\ pc = [p \in {1} |-> "idle"]
    /\ loc = [p \in {1} |-> <<>>]
    /\ log = <<>>
    /\ NoMiddleware

NextRefund ==
    \/ \E k \in Keys, w \in RefundWeights :
          Len(mw) < RefundMaxRequests /\ RateLimiterMiddleware(1, k, w)
    \/ RateLimiterIncrby(1)
    \/ RateLimiterExpire(1)
    \/ \E r \in 1..Len(mw), s \in Statuses : ResponseEnd(r, s)
    \/ clock < RefundMaxTicks * (config.windowMs \div 2) /\ Tick(config.windowMs \div 2)

SpecRefund == InitRefund /\ [][NextRefund]_vars

----------------------------------------------------------------------------
(* SpecGate: requests pass through the middleware of a fixed-window        *)
(* limiter (built with default options, with handler: undefined, or with   *)
(* a skip function) and through the middleware of a throttler, one after  *)
(* the other, up to the rejection or the call of next(); the ceilings are  *)
(* low enough for rejections.                                              *)

GateProcs == {1}

GatePolicies ==
    {RateLimiterConfig([windowMs |-> 60 * 1000, maxRequests |-> 2, keyPrefix |-> "api"]),
     RateLimiterConfig([windowMs |-> 60 * 1000, maxRequests |-> 2, keyPrefix |-> "api",
                        handler |-> "undefined"]),
     RateLimiterConfig([windowMs |-> 60 * 1000, maxRequests |-> 2, keyPrefix |-> "api",
                        skip |-> "configured"])}

\* keys as DistributedThrottler.generateKey builds them: `ip:${ip}`
ThrottleKeys == {"ip:10.0.0.1"}

\* costs of a GET and of a POST
GateCosts == {1, 5}

\* weight of a request: the ceiling
GateWeights == {2}

GateStep == 60000 \div 4

InitGate ==
    /\ clock = 0
    /\ storeUp = TRUE
    /\ config \in GatePolicies
    /\ throttle = SmallThrottle
    /\ sliding = DefaultSliding
    /\ skew = [p \in GateProcs |-> 0]
    /\ redis = <<>>
    /\ pc = [p \in GateProcs |-> "idle"]
    /\ loc = [p \in GateProcs |-> <<>>]
    /\ log = <<>>
    /\ NoMiddleware

NextGate ==
    \/ \E p \in GateProcs, k \in Keys, w \in GateWeights :
          Len(mw) < GateMaxRequests /\ RateLimiterMiddleware(p, k, w)
    \/ \E p \in GateProcs :
          Len(mw) < GateMaxRequests /\ RateLimiterMiddlewareSkip(p)
    \/ \E p \in GateProcs, k \in ThrottleKeys, c \in GateCosts :
          Len(mw) < GateMaxRequests /\ ThrottlerMiddleware(p, k, c)
    \/ \E p \in GateProcs : RateLimiterIncrby(p)
    \/ \E p \in GateProcs : RateLimiterExpire(p)
    \/ \E p \in GateProcs : ThrottlerEval(p)
    \/ clock < GateMaxTicks * GateStep /\ Tick(GateStep)

SpecGate == InitGate /\ [][NextGate]_vars

----------------------------------------------------------------------------
(* SpecRefundOutage: the store is unreachable; requests pass through the   *)
(* middleware of a fixed-window limiter built with skipSuccessfulRequests  *)
(* or skipFailedRequests, and their responses end with status 200 or 500.  *)

InitRefundOutage ==
    /\ clock = 0
    /\ storeUp = FALSE
    /\ config \in {c \in RefundPolicies :
                      c.skipSuccessfulRequests \/ c.skipFailedRequests}
    /\ throttle = DefaultThrottle
    /\ sliding = DefaultSliding
    /\ skew = [p \in {1} |-> 0]
    /\ redis = <<>>
    /\ pc = [p \in {1} |-> "idle"]
    /\ loc = [p \in {1} |-> <<>>]
    /\ log = <<>>
    /\ NoMiddleware

NextRefundOutage ==
    \/ \E k \in Keys, w \in RefundWeights :
          Len(mw) < RefundOutageMaxRequests /\ RateLimiterMiddleware(1, k, w)
    \/ RateLimiterCatch(1)
    \/ \E r \in 1..Len(mw), s \in Statuses : ResponseEnd(r, s)
    \/ \E r \in 1..Len(mw), s \in Statuses : ResponseEndThrows(r, s)
    \/ \E r \in 1..Len(mw), s \in Statuses : ResponseEndRejects(r, s)
    \/ clock < RefundOutageMaxTicks * (config.windowMs \div 2)
          /\ Tick(config.windowMs \div 2)

SpecRefundOutage == InitRefundOutage /\ [][NextRefundOutage]_vars

----------------------------------------------------------------------------
(* SpecAdaptive: requests pass through the middleware of an                *)
(* AdaptiveRateLimiter with base ceiling 1 or 5, whose profile for the key *)
(* is absent or one that recordMetric calls have built; recordMetric is    *)
(* called from outside, time passes in steps of 40 minutes and the         *)
(* collection timer fires.                                                 *)

AdaptivePolicies ==
    {[windowMs |-> 60 * 1000, maxRequests |-> b, keyPrefix |-> "api",
      keyGenerator |-> "configured"] : b \in {1, 5}}

\* profiles left by 10, 20 or 100 recordMetric calls at time 0: error rates
\* of 20%, 10%, 5%, 1% and 0%, the last with an average latency of 50 ms
\* and of 100 ms
Profiles ==
    {[total |-> 10, errors |-> 2, totalResponseTime |-> 500, lastUpdate |-> 0],
     [total |-> 10, errors |-> 1, totalResponseTime |-> 500, lastUpdate |-> 0],
     [total |-> 20, errors |-> 1, totalResponseTime |-> 1000, lastUpdate |-> 0],
     [total |-> 100, errors |-> 1, totalResponseTime |-> 5000, lastUpdate |-> 0],
     [total |-> 100, errors |-> 0, totalResponseTime |-> 5000, lastUpdate |-> 0],
     [total |-> 100, errors |-> 0, totalResponseTime |-> 10000, lastUpdate |-> 0]}

AdaptiveWeights == {1, 3}

\* responseTime passed to recordMetric, in ms
ResponseTimes == {50, 150}

AdaptiveStep == 40 * 60 * 1000

\* recordMetric calls for key after its initial profile, whose total is a
\* multiple of 10
Recorded(key) ==
    IF key \in DOMAIN performanceMetrics THEN performanceMetrics[key].total % 10 ELSE 0

InitAdaptive ==
    /\ clock = 0
    /\ storeUp = TRUE
    /\ baseConfig \in AdaptivePolicies
    /\ config = RateLimiterConfig(baseConfig)
    /\ performanceMetrics \in {<<>>} \cup {(k :> m) : k \in Keys, m \in Profiles}
    /\ throttle = DefaultThrottle
    /\ sliding = DefaultSliding
    /\ skew = [p \in {1} |-> 0]
    /\ redis = <<>>
    /\ pc = [p \in {1} |-> "idle"]
    /\ loc = [p \in {1} |-> <<>>]
    /\ log = <<>>
    /\ mw = <<>>
    /\ failures = {}

NextAdaptive ==
    \/ \E k \in Keys, w \in AdaptiveWeights :
          Len(mw) < AdaptiveMaxRequests /\ AdaptiveMiddleware(1, k, w)
    \/ RateLimiterIncrby(1)
    \/ RateLimiterExpire(1)
    \/ \E k \in Keys, t \in ResponseTimes, s \in Statuses :
          Recorded(k) < AdaptiveMaxRecords /\ RecordMetric(k, t, s)
    \/ MetricsCollection
    \/ clock < AdaptiveMaxTicks * AdaptiveStep /\ Tick(AdaptiveStep)

SpecAdaptive == InitAdaptive /\ [][NextAdaptive]_vars

----------------------------------------------------------------------------
(* SpecFeedback: requests pass through the middleware of an                *)
(* AdaptiveRateLimiter that starts without profiles, and their responses   *)
(* end with status 200 or 500; nothing else calls recordMetric.            *)

InitFeedback ==
    /\ clock = 0
    /\ storeUp = TRUE
    /\ baseConfig \in AdaptivePolicies
    /\ config = RateLimiterConfig(baseConfig)
    /\ performanceMetrics = <<>>
    /\ throttle = DefaultThrottle
    /\ sliding = DefaultSliding
    /\ skew = [p \in {1} |-> 0]
    /\ redis = <<>>
    /\ pc = [p \in {1} |-> "idle"]
    /\ loc = [p \in {1} |-> <<>>]
    /\ log = <<>>
    /\ mw = <<>>
    /\ failures = {}

NextFeedback ==
    \/ \E k \in Keys, w \in AdaptiveWeights :
          Len(mw) < FeedbackMaxRequests /\ AdaptiveMiddleware(1, k, w)
    \/ RateLimiterIncrby(1)
    \/ RateLimiterExpire(1)
    \/ \E r \in 1..Len(mw), s \in Statuses : ResponseEnd(r, s)
    \/ clock < FeedbackMaxTicks * (baseConfig.windowMs \div 2)
          /\ Tick(baseConfig.windowMs \div 2)

SpecFeedback == InitFeedback /\ [][NextFeedback]_vars

----------------------------------------------------------------------------
(* SpecKeys: requests of two clients (LimitKeys) pass through the adaptive *)
(* middleware, whose limiter refunds failed requests, and checks on the    *)
(* two keys are issued to throttlers.heavy and to a sliding-window         *)
(* limiter; between the checks, which follow one another, responses end    *)
(* with status 500 and are refunded, recordMetric is called and time       *)
(* passes in steps of half a window.                                       *)

KeyPair == {"10.0.0.1:anonymous", "10.0.0.2:anonymous"}

KeysPolicy ==
    [windowMs |-> 60 * 1000, maxRequests |-> 2, keyPrefix |-> "api",
     keyGenerator |-> "configured", skipFailedRequests |-> TRUE]

\* the checks issued and the recordMetric calls made so far
KeysIssued == Issued + Recorded("10.0.0.1:anonymous") + Recorded("10.0.0.2:anonymous")

InitKeys ==
    /\ clock = 0
    /\ storeUp = TRUE
    /\ baseConfig = KeysPolicy
    /\ config = RateLimiterConfig(baseConfig)
    /\ performanceMetrics = <<>>
    /\ throttle = HeavyThrottle
    /\ sliding = LowSliding
    /\ skew = [p \in {1} |-> 0]
    /\ redis = <<>>
    /\ pc = [p \in {1} |-> "idle"]
    /\ loc = [p \in {1} |-> <<>>]
    /\ log = <<>>
    /\ mw = <<>>
    /\ failures = {}

NextKeys ==
    \/ \E k \in KeyPair : KeysIssued < KeysMaxCalls /\ AdaptiveMiddleware(1, k, 2)
    \/ RateLimiterIncrby(1)
    \/ RateLimiterExpire(1)
    \/ \E r \in 1..Len(mw) : Idle(1) /\ ResponseEnd(r, 500)
    \/ \E k \in KeyPair : KeysIssued < KeysMaxCalls /\ ThrottlerBegin(1, k, 5)
    \/ ThrottlerEval(1)
    \/ \E k \in KeyPair : KeysIssued < KeysMaxCalls /\ SlidingBegin(1, k, "0f3a9c21")
    \/ SlidingZremrangebyscore(1)
    \/ SlidingZadd(1)
    \/ SlidingZcount(1)
    \/ SlidingExpire(1)
    \/ \E k \in KeyPair, s \in Statuses :
          /\ Idle(1)
          /\ KeysIssued < KeysMaxCalls
          /\ RecordMetric(k, 50, s)
    \/ /\ Idle(1)
       /\ clock < KeysMaxTicks * (baseConfig.windowMs \div 2)
       /\ Tick(baseConfig.windowMs \div 2)

SpecKeys == InitKeys /\ [][NextKeys]_vars

----------------------------------------------------------------------------
(* SpecOutage: the store is unreachable throughout; a process issues    *)
(* up to OutageMaxChecks checks of the three limiters.                     *)

OutageProcs == {1}

\* the policies of the three limiters, as deployed together
OutagePolicies == {<<ScenarioConfig, HeavyThrottle, DefaultSliding>>,
                   <<LowConfig, RefillThrottle, LowSliding>>}

InitOutage ==
    /\ clock = 0
    /\ storeUp = FALSE
    /\ \E policy \in OutagePolicies :
          /\ config = policy[1]
          /\ throttle = policy[2]
          /\ sliding = policy[3]
    /\ skew = [p \in OutageProcs |-> 0]
    /\ redis = <<>>
    /\ pc = [p \in OutageProcs |-> "idle"]
    /\ loc = [p \in OutageProcs |-> <<>>]
    /\ log = <<>>
    /\ NoMiddleware

NextOutage ==
    \/ \E p \in OutageProcs, k \in Keys, w \in FWWeights :
          Issued < OutageMaxChecks /\ RateLimiterBegin(p, k, w)
    \/ \E p \in OutageProcs, k \in Keys, c \in Costs :
          Issued < OutageMaxChecks /\ ThrottlerBegin(p, k, c)
    \/ \E p \in OutageProcs, k \in Keys, t \in Tags :
          Issued < OutageMaxChecks /\ SlidingBegin(p, k, t)
    \/ \E p \in OutageProcs : RateLimiterCatch(p)
    \/ \E p \in OutageProcs : ThrottlerCatch(p)
    \/ \E p \in OutageProcs : SlidingCatch(p)
    \/ \E p \in OutageProcs : SlidingExecErrors(p)
    \/ clock < OutageMaxTicks * (config.windowMs \div 2) /\ Tick(config.windowMs \div 2)

SpecOutage == InitOutage /\ [][NextOutage]_vars

----------------------------------------------------------------------------
(* Vocabulary of the properties. *)

\* no isAllowed call is in flight
Quiescent == \A p \in DOMAIN pc : pc[p] = "idle"

\* the windows some returned check fell in
LoggedWindows == {log[i].window : i \in {n \in 1..Len(log) : log[n].limiter = "fixed"}}

\* the returned fixed-window checks on key k in window w that reached the store
FixedEntries(k, w) ==
    {i \in 1..Len(log) : /\ log[i].limiter = "fixed"
                         /\ log[i].key = k
                         /\ log[i].window = w
                         /\ "count" \in DOMAIN log[i]}

\* window w has not closed yet
InWindow(w) == clock < (w + 1) * config.windowMs

\* the stored counter of key k in window w
Counter(k, w) ==
    IF windowKey(config, k, w) \in DOMAIN redis
    THEN redis[windowKey(config, k, w)].val
    ELSE 0

RECURSIVE SumWeights(_)
SumWeights(S) ==
    IF S = {} THEN 0
    ELSE LET i == CHOOSE x \in S : TRUE
         IN  log[i].weight + SumWeights(S \ {i})

\* check j began after check i had returned
Follows(j, i) == i <= log[j].begun

\* the returned throttler checks on key k that reached the store
ThrottleEntries(k) ==
    {i \in 1..Len(log) : /\ log[i].limiter = "throttle"
                         /\ log[i].key = k
                         /\ "threw" \notin DOMAIN log[i]}

\* the checks of o (log indices), run one at a time in that order from an
\* empty counter, return the (allowed, remaining) the log holds for them
SerialFixed(o) ==
    \A n \in 1..Len(o) :
        LET c == SumSeq([m \in 1..n |-> log[o[m]].weight])
        IN  /\ log[o[n]].result.allowed = (c <= config.maxRequests)
            /\ log[o[n]].result.remaining = Max(0, config.maxRequests - c)

----------------------------------------------------------------------------
(* C1: fixed-window limiter, one key and one window: once the concurrent   *)
(* checks issued so far have all returned (the window still open), the     *)
(* stored counter is the sum of their weights, and their (allowed,         *)
(* remaining) results are those of running them one at a time in some      *)
(* order.                                                                  *)
C1_FixedWindowSerializable ==
    \A k \in Keys, w \in LoggedWindows :
        (Quiescent /\ InWindow(w)) =>
            LET E == FixedEntries(k, w)
            IN  /\ Counter(k, w) = SumWeights(E)
                /\ \E o \in Orderings(E) : SerialFixed(o)

\* three checks that were all in flight together have returned, with
\* different weights, one of them rejected
C1_Witness ==
    /\ Quiescent
    /\ InWindow(0)
    /\ Len(log) = 3
    /\ \A i \in 1..3 : log[i].begun = 0 /\ log[i].window = 0
    /\ \E i \in 1..3 : ~log[i].result.allowed
    /\ \E i, j \in 1..3 : log[i].weight # log[j].weight

(* C4: fixed-window limiter, one key and one window, from an empty         *)
(* counter: when the weights of the checks sum to S <= C they are all      *)
(* allowed, and a check of weight C - S + 1 that follows them in the same  *)
(* window is rejected.                                                     *)
C4_CeilingExact ==
    \A k \in Keys, w \in LoggedWindows :
        (Quiescent /\ InWindow(w)) =>
            LET E == FixedEntries(k, w)
            IN  /\ SumWeights(E) <= config.maxRequests =>
                      \A i \in E : log[i].result.allowed
                /\ \A j \in E :
                      LET P == E \ {j}
                          S == SumWeights(P)
                      IN  (/\ \A i \in P : Follows(j, i)
                           /\ S <= config.maxRequests
                           /\ log[j].weight = config.maxRequests - S + 1)
                          => ~log[j].result.allowed

\* two concurrent checks filled the window exactly and were allowed; the
\* check that followed them with weight C - S + 1 was rejected
C4_Witness ==
    /\ Quiescent
    /\ InWindow(0)
    /\ Len(log) = 3
    /\ \A i \in 1..3 : log[i].window = 0
    /\ log[1].begun = 0 /\ log[2].begun = 0 /\ log[3].begun = 2
    /\ log[1].weight + log[2].weight <= config.maxRequests
    /\ log[1].result.allowed /\ log[2].result.allowed
    /\ log[3].weight = config.maxRequests - (log[1].weight + log[2].weight) + 1
    /\ ~log[3].result.allowed

(* C7: fixed-window limiter: a rejected check has added its weight, so     *)
(* every check on the key that follows a rejected one in the same window   *)
(* is rejected as well, whatever its weight.                               *)
C7_RejectionSticks ==
    \A k \in Keys, w \in LoggedWindows :
        InWindow(w) =>
            \A i, j \in FixedEntries(k, w) :
                (Follows(j, i) /\ ~log[i].result.allowed) => ~log[j].result.allowed

\* a check was rejected, and a later one was rejected although its weight
\* fits under the ceiling once the rejected check's weight is taken out
C7_Witness ==
    \E k \in Keys, w \in LoggedWindows :
        /\ InWindow(w)
        /\ \E i, j \in FixedEntries(k, w) :
              /\ Follows(j, i)
              /\ ~log[i].result.allowed
              /\ ~log[j].result.allowed
              /\ log[j].count - log[i].weight <= config.maxRequests

(* C5: fixed-window limiter: with count the counter value after the        *)
(* weight was added, every check returns allowed = (count <= C),           *)
(* remaining = max(0, C - count) and resetAt = (window + 1) * W, and a     *)
(* rejected check also returns retryAfter = resetAt - now with             *)
(* 0 < retryAfter <= W.  Under {windowMs: 60000, maxRequests: 5} the       *)
(* weight-1 checks of one window return remaining 4, 3, 2, 1, 0 and are    *)
(* allowed, and the sixth and later ones are rejected.                     *)
C5_ResultContract ==
    /\ \A i \in 1..Len(log) :
          (log[i].limiter = "fixed" /\ "count" \in DOMAIN log[i]) =>
              LET e == log[i]
                  r == e.result
              IN  /\ r.allowed = (e.count <= config.maxRequests)
                  /\ r.remaining = Max(0, config.maxRequests - e.count)
                  /\ r.resetAt = (e.window + 1) * config.windowMs
                  /\ ~r.allowed =>
                        /\ "retryAfter" \in DOMAIN r
                        /\ r.retryAfter = r.resetAt - e.now
                        /\ 0 < r.retryAfter
                        /\ r.retryAfter <= config.windowMs
    /\ \A k \in Keys, w \in LoggedWindows :
          LET E == FixedEntries(k, w)
          IN  (InWindow(w) /\ \A i \in E : log[i].weight = 1) =>
                  \A i \in E :
                      LET n == Cardinality({j \in E : j <= i})
                          r == log[i].result
                      IN  /\ log[i].count = n
                          /\ n <= 5 => (r.allowed /\ r.remaining = 5 - n)
                          /\ n >= 6 => /\ ~r.allowed
                                       /\ r.remaining = 0
                                       /\ 0 < r.retryAfter
                                       /\ r.retryAfter <= 60000

\* five weight-1 checks of window 0 returned remaining 4, 3, 2, 1, 0 and
\* the sixth, issued half a window in, was rejected with retryAfter 30000
C5_Witness ==
    /\ config = [windowMs |-> 60000, maxRequests |-> 5, keyPrefix |-> "rate-limit"]
    /\ Len(log) = 6
    /\ \A i \in 1..6 : log[i].weight = 1 /\ log[i].window = 0
    /\ \A i \in 1..5 : log[i].result.allowed /\ log[i].result.remaining = 5 - i
    /\ ~log[6].result.allowed
    /\ log[6].result.retryAfter = 30000
    /\ log[6].result.resetAt = 60000

(* C2: token bucket: when more checks of cost 1 than the burst capacity B  *)
(* have run on one key, all with the same now and starting from a full     *)
(* bucket, exactly B of them are allowed and the others are rejected,      *)
(* however they interleave.                                                *)
C2_BurstExact ==
    \A k \in Keys :
        LET E == ThrottleEntries(k)
            A == {i \in E : log[i].result.allowed}
        IN  (/\ Cardinality(E) > throttle.burstLimit
             /\ \A i \in E : log[i].cost = 1
             /\ \A i, j \in E : log[i].now = log[j].now)
            => /\ Cardinality(A) = throttle.burstLimit
               /\ Cardinality(E \ A) = Cardinality(E) - throttle.burstLimit

\* three checks of cost 1 that were all in flight together ran against the
\* full bucket of two: two allowed, one rejected
C2_Witness ==
    /\ Quiescent
    /\ Len(log) = 3
    /\ throttle.burstLimit = 2
    /\ \A i \in 1..3 : /\ log[i].limiter = "throttle"
                       /\ log[i].begun = 0
                       /\ log[i].cost = 1
                       /\ log[i].now = 0
    /\ Cardinality({i \in 1..3 : log[i].result.allowed}) = 2
    /\ Cardinality({i \in 1..3 : ~log[i].result.allowed}) = 1

(* C8: token bucket: a check computes refilled = min(B, tokens + elapsed * *)
(* R) from the stored record, a missing record counting as a full bucket   *)
(* read now; when refilled >= cost it stores refilled - cost and is        *)
(* allowed, otherwise it stores refilled and is rejected with retryAfter = *)
(* (cost - refilled) / R * 1000 > 0; either way last_refill becomes now.   *)
(* Stated for the checks whose now is not earlier than the stored          *)
(* last_refill.                                                            *)
C8_BucketDecision ==
    [][\A p \in DOMAIN pc :
          (/\ pc[p] = "eval" /\ pc'[p] = "idle"
           /\ BucketRead(redis, loc[p].redisKey, throttle, loc[p].now).last_refill
                 <= loc[p].now) =>
              LET l        == loc[p]
                  key      == l.redisKey
                  B        == FOf(throttle.burstLimit)
                  R        == refillRate(throttle)
                  cost     == FOf(l.cost)
                  tokens   == IF key \in DOMAIN redis THEN redis[key].tokens ELSE B
                  last     == IF key \in DOMAIN redis THEN redis[key].last_refill ELSE l.now
                  elapsed  == FDiv(FOf(l.now - last), FOf(1000))
                  refilled == FMin(B, FAdd(tokens, FMul(elapsed, R)))
                  r        == log'[Len(log')].result
              IN  /\ Len(log') = Len(log) + 1
                  /\ redis'[key].last_refill = l.now
                  /\ IF FCmp(refilled, cost) >= 0
                     THEN /\ FCmp(redis'[key].tokens, FSub(refilled, cost)) = 0
                          /\ r.allowed
                     ELSE /\ FCmp(redis'[key].tokens, refilled) = 0
                          /\ ~r.allowed
                          /\ FCmp(r.retryAfter,
                                  FMul(FDiv(FSub(cost, refilled), R), FOf(1000))) = 0
                          /\ FCmp(r.retryAfter, FZero) > 0]_vars

(* C9: token bucket: the stored token level of every key lies in [0, B],   *)
(* also when a check supplies a now earlier than the stored last_refill.   *)
C9_TokensBounded ==
    \A key \in DOMAIN redis :
        redis[key].kind = "hash" =>
            /\ FCmp(FZero, redis[key].tokens) <= 0
            /\ FCmp(redis[key].tokens, FOf(throttle.burstLimit)) <= 0

(* C10: token bucket with burst 10 and 10 tokens per 60 s: after a check   *)
(* left the bucket at 0, as long as no later check is admitted and time    *)
(* advances, the tokensRemaining of successive checks never decreases, is  *)
(* 5 for the check 30 s after the drain, and no check ever reports more    *)
(* than 10.                                                                *)
C10_RefillMath ==
    \A k \in Keys :
        /\ \A i \in ThrottleEntries(k) : log[i].result.tokensRemaining <= 10
        /\ \A d, i, j \in ThrottleEntries(k) :
              (/\ d < i /\ i <= j
               /\ FCmp(log[d].level, FZero) = 0
               /\ \A m \in (d + 1)..j : ~log[m].result.allowed
               /\ \A m \in (d + 1)..j : log[m - 1].now <= log[m].now)
              => /\ log[i].result.tokensRemaining <= log[j].result.tokensRemaining
                 /\ log[j].now - log[d].now = 30000 =>
                        log[j].result.tokensRemaining = 5

(* C26: token bucket, checks issued one after the other on one key: after  *)
(* a check of cost c <= burstLimit is rejected with retryAfter r, a check  *)
(* of the same cost on that key at least r milliseconds later, with no     *)
(* check admitted in between and the record not expired, is allowed.       *)
C26_RetrySufficient ==
    \A k \in Keys :
        \A i, j \in ThrottleEntries(k) :
            (/\ i < j
             /\ ~log[i].result.allowed
             /\ log[i].cost <= throttle.burstLimit
             /\ log[j].cost = log[i].cost
             /\ FCmp(FOf(log[j].now - log[i].now), log[i].result.retryAfter) >= 0
             /\ \A m \in (i + 1)..(j - 1) : ~log[m].result.allowed
             /\ \A m \in (i + 1)..j : log[m].now - log[m - 1].now < throttle.windowMs)
            => log[j].result.allowed

\* the level check j decided on: the level it stored, plus its cost when it
\* was admitted
LevelUsed(j) ==
    IF log[j].result.allowed THEN FAdd(log[j].level, FOf(log[j].cost)) ELSE log[j].level

(* C27: token bucket, checks issued one after the other on one key: a      *)
(* check that comes windowMs or more after the previous one, whose record  *)
(* may have expired, decides on a level no greater than the one refill     *)
(* from the record the previous check stored gives at that time.           *)
C27_ExpiryWithinRefill ==
    \A k \in Keys :
        \A j \in ThrottleEntries(k) :
            (/\ j - 1 \in ThrottleEntries(k)
             /\ log[j].now - log[j - 1].now >= throttle.windowMs)
            => FCmp(LevelUsed(j),
                    Refill(throttle,
                           [tokens |-> log[j - 1].level, last_refill |-> log[j - 1].now],
                           log[j].now)) <= 0

(* C28: token bucket with the store reachable: a check whose cost exceeds  *)
(* burstLimit is rejected, at every time and from every bucket state, and  *)
(* reports a finite positive retryAfter.                                   *)
C28_AboveBurstRejected ==
    \A k \in Keys :
        \A i \in ThrottleEntries(k) :
            log[i].cost > throttle.burstLimit =>
                /\ ~log[i].result.allowed
                /\ FCmp(FZero, log[i].result.retryAfter) < 0

\* an upload (cost 10) was rejected by throttlers.heavy (burst 5) on a bucket
\* that an earlier check had written and that had refilled for 30 s
C28_Witness ==
    \E k \in Keys :
        \E i, j \in ThrottleEntries(k) :
            /\ i < j
            /\ throttle = HeavyThrottle
            /\ log[j].cost = 10
            /\ log[j].now - log[i].now = 30000
            /\ ~log[j].result.allowed
            /\ log[j].result.tokensRemaining = 5
----------------------------------------------------------------------------
(* Sliding window. *)

\* the returned checks of the sliding-window limiter on key k
SlidingEntries(k) ==
    {i \in 1..Len(log) : log[i].limiter = "sliding" /\ log[i].key = k}

\* the members left in the sorted set after the checks o[1..n] ran one
\* after the other on an empty store
RECURSIVE SerialMembers(_, _)
SerialMembers(o, n) ==
    IF n = 0 THEN {}
    ELSE LET e == log[o[n]]
         IN  {m \in SerialMembers(o, n - 1) : m.score > e.now - sliding.windowMs}
                \cup {[score |-> e.now, tag |-> e.tag]}

\* the count the n-th check of the order o obtains when the checks run one
\* after the other
SerialCount(o, n) ==
    LET e == log[o[n]]
    IN  Cardinality({m \in SerialMembers(o, n) :
                       e.now - sliding.windowMs <= m.score /\ m.score <= e.now})

\* the order o respects returns-before-calls and yields every check's count
\* and result
SerialSliding(o) ==
    /\ \A a, b \in 1..Len(o) : Follows(o[b], o[a]) => a < b
    /\ \A n \in 1..Len(o) :
          /\ log[o[n]].count = SerialCount(o, n)
          /\ log[o[n]].result = (SerialCount(o, n) <= sliding.maxRequests)

(* C3: the purge, insert and count of one sliding-window check take effect *)
(* as one indivisible operation: once the checks on a key have returned,   *)
(* and before any entry or key of the store could have expired, their      *)
(* counts and results are those of the same checks run one after the       *)
(* other in some order that respects returns before calls.                 *)
C3_SlidingSerializable ==
    \A k \in Keys :
        (Quiescent /\ clock < sliding.windowMs)
            => \E o \in Orderings(SlidingEntries(k)) : SerialSliding(o)

\* the checks on key k that returned before check j and whose timestamps
\* lie less than windowMs before that of j
Within(k, j) ==
    {i \in SlidingEntries(k) :
        i < j /\ log[i].now <= log[j].now /\ log[j].now - log[i].now < sliding.windowMs}

(* C11: sliding window, checks issued one after the other on one key: a    *)
(* check that falls within windowMs of at least maxRequests earlier checks *)
(* (the last of ceiling + 1) is rejected, and the check issued windowMs    *)
(* after that one, with no check in between, is accepted.                  *)
C11_SlidingExact ==
    \A k \in Keys :
        \A j \in SlidingEntries(k) :
            Cardinality(Within(k, j)) >= sliding.maxRequests =>
                /\ ~log[j].result
                /\ (/\ j + 1 \in SlidingEntries(k)
                    /\ log[j + 1].now = log[j].now + sliding.windowMs)
                   => log[j + 1].result

(* C12: sliding window, checks issued one after the other on one key with  *)
(* the store reachable: the allowed checks whose timestamps lie in an      *)
(* interval shorter than windowMs number at most maxRequests.              *)
C12_NoEdgeArtifact ==
    \A k \in Keys :
        \A i \in SlidingEntries(k) :
            log[i].result =>
                Cardinality({j \in SlidingEntries(k) :
                               /\ log[j].result
                               /\ log[i].now <= log[j].now
                               /\ log[j].now < log[i].now + sliding.windowMs})
                    <= sliding.maxRequests

(* C29: sliding window, checks issued one after the other on one key: the  *)
(* entries of rejected checks are counted against later checks (the count  *)
(* of a check is at least the number of rejected earlier checks less than  *)
(* windowMs before it), and a check is admitted only if the earlier        *)
(* checks, admitted or rejected, less than windowMs before it number fewer *)
(* than maxRequests.                                                       *)
C29_RejectedCounted ==
    \A k \in Keys :
        \A j \in SlidingEntries(k) :
            /\ log[j].count >= Cardinality({i \in Within(k, j) : ~log[i].result})
            /\ log[j].result => Cardinality(Within(k, j)) < sliding.maxRequests

(* C23: sliding-window limiters with different keyPrefix sharing the store: *)
(* checks of limiters whose keyPrefix differ use different store keys, and *)
(* the count of a check is at most itself plus the earlier checks of its   *)
(* own limiter on that key less than windowMs before it.                   *)
C23_NamespaceIsolation ==
    \A k \in Keys :
        \A j \in SlidingEntries(k) :
            /\ \A i \in SlidingEntries(k) :
                  log[i].config.keyPrefix # log[j].config.keyPrefix
                      => log[i].redisKey # log[j].redisKey
            /\ log[j].count <=
                  1 + Cardinality({i \in Within(k, j) :
                                     log[i].config.keyPrefix = log[j].config.keyPrefix})

----------------------------------------------------------------------------
(* The refund of the fixed-window middleware. *)

\* the value stored under key, 0 when there is none
StoredVal(store, key) == IF key \in DOMAIN store THEN store[key].val ELSE 0

\* in this step the response of request r, admitted by the limiter, ends
Ends(r) ==
    /\ mw[r].stage = "downstream"
    /\ mw'[r].stage = "ended"
    /\ ~mw[r].skipped

\* the window of the time at which the response of request r ends
EndWindow(r) == Floor(clock + skew[mw[r].proc], mw[r].config.windowMs)

RECURSIVE SumRefunds(_)
\* the weights refunded by the requests of S
SumRefunds(S) ==
    IF S = {} THEN 0
    ELSE LET r == CHOOSE x \in S : TRUE
         IN  mw[r].refund[2] + SumRefunds(S \ {r})

\* the requests whose refund went to the counter of key k in window w
RefundedIn(k, w) ==
    {r \in 1..Len(mw) : /\ mw[r].refund # <<>>
                        /\ mw[r].refund[1] = windowKey(config, k, w)}

(* C13: when the response of an admitted request ends after the window in *)
(* which the request was counted has closed, the step changes nothing in   *)
(* the store: no counter of any window, no new key.                        *)
C13_LateRefundNoOp ==
    [][\A r \in 1..Len(mw) :
          (Ends(r) /\ EndWindow(r) > log[mw[r].entry].window) => redis' = redis]_vars

\* the step at the end of the response of request r decrements the counter
\* of the window of that time by the weight when the refund condition
\* holds and leaves the rest of the store; otherwise it leaves the store
RefundCondition(r) ==
    LET req  == mw[r]
        code == mw'[r].statusCode
        key  == windowKey(req.config, req.key, EndWindow(r))
    IN  IF \/ code < 400 /\ req.config.skipSuccessfulRequests
           \/ code >= 400 /\ req.config.skipFailedRequests
        THEN /\ StoredVal(redis', key) = StoredVal(redis, key) - req.weight
             /\ \A k \in (DOMAIN redis \cup DOMAIN redis') \ {key} :
                   k \in DOMAIN redis /\ k \in DOMAIN redis' /\ redis'[k] = redis[k]
        ELSE redis' = redis

\* while a window is open and no check is in flight, its counter is the
\* weight counted in it less the weight refunded to it: a request counted
\* and refunded in the window leaves the counter as if it was never made
RoundTrip ==
    \A k \in Keys, w \in 0..RefundMaxTicks :
        (Quiescent /\ InWindow(w)) =>
            Counter(k, w) = SumWeights(FixedEntries(k, w)) - SumRefunds(RefundedIn(k, w))

(* C14: for a request admitted through the fixed-window middleware, the    *)
(* end of the response decrements the counter by the request's weight      *)
(* exactly when (status < 400 and skipSuccessfulRequests) or (status >=    *)
(* 400 and skipFailedRequests), and otherwise leaves the store unchanged;  *)
(* a counter holds the weight counted in its window less the weight        *)
(* refunded to it, so a request refunded in the window in which it was     *)
(* counted leaves the counter at the value it would have had without it.   *)
C14_RefundRoundTrip ==
    /\ [][\A r \in 1..Len(mw) : Ends(r) => RefundCondition(r)]_vars
    /\ []RoundTrip

\* a request of weight 2 was counted and refunded in window 0 on a failed
\* response, another of weight 1 counted there ended without refund, and
\* the counter of the open window is 1
C14_Witness ==
    /\ Quiescent
    /\ InWindow(0)
    /\ \E r, q \in 1..Len(mw) :
          /\ mw[r].stage = "ended" /\ mw[r].weight = 2 /\ mw[r].statusCode = 500
          /\ mw[r].refund # <<>> /\ log[mw[r].entry].window = 0 /\ mw[r].endedAt < config.windowMs
          /\ mw[q].stage = "ended" /\ mw[q].weight = 1 /\ mw[q].refund = <<>>
          /\ log[mw[q].entry].window = 0
    /\ Counter("10.0.0.1:anonymous", 0) = 1

(* C22: whenever no check is in flight, every key of a limiter present in  *)
(* the store has an expiry set.                                            *)
C22_EveryKeyExpires ==
    Quiescent => \A key \in DOMAIN redis : redis[key].expireAt # {}

(* C24: the refund decrements by the request's weight the counter of the   *)
(* window in which the response ends; when that is not the window in       *)
(* which the request was counted, the counter of the counted window is     *)
(* left alone and the later window's counter is reduced.                   *)
C24_RefundTargetsEndWindow ==
    [][\A r \in 1..Len(mw) :
          (Ends(r) /\ mw'[r].refund # <<>>) =>
              LET k  == mw[r].key
                  w0 == log[mw[r].entry].window
                  w1 == EndWindow(r)
              IN  /\ Counter(k, w1)' = Counter(k, w1) - mw[r].weight
                  /\ w1 # w0 => Counter(k, w0)' = Counter(k, w0)]_vars

\* a request of weight 2 counted in window 0 was refunded when its response
\* ended in window 1, whose counter, never incremented, stands at -2
C24_Witness ==
    \E r \in 1..Len(mw) :
        /\ mw[r].stage = "ended"
        /\ mw[r].refund # <<>>
        /\ mw[r].weight = 2
        /\ log[mw[r].entry].window = 0
        /\ mw[r].endedAt = config.windowMs
        /\ FixedEntries(mw[r].key, 1) = {}
        /\ Counter(mw[r].key, 1) = -2

(* C25: the stored counter of every key and window of the fixed-window     *)
(* limiter is at least 0.                                                  *)
C25_CounterNonNegative ==
    \A key \in DOMAIN redis : redis[key].kind = "string" => redis[key].val >= 0

----------------------------------------------------------------------------
(* The middlewares as gates. *)

\* the requests whose check has returned
Checked == {r \in 1..Len(mw) : ~mw[r].skipped /\ mw[r].stage # "isAllowed"}

(* C18: for every request that is not skipped and whose check has          *)
(* returned, in the fixed-window and the throttler middleware: next() was  *)
(* called exactly once when the check returned allowed = true, and never   *)
(* when it returned allowed = false, in which case the status is 429.      *)
C18_Gating ==
    \A r \in Checked :
        /\ mw[r].result = log[mw[r].entry].result
        /\ mw[r].result.allowed => mw[r].nextCalls = 1
        /\ ~mw[r].result.allowed => mw[r].nextCalls = 0 /\ mw[r].statusCode = 429

\* a request was rejected by the fixed-window middleware, another by the
\* throttler middleware, and a third went downstream
C18_Witness ==
    /\ \E r \in Checked : mw[r].limiter = "fixed" /\ ~mw[r].result.allowed
    /\ \E r \in Checked : mw[r].limiter = "throttle" /\ ~mw[r].result.allowed
    /\ \E r \in Checked : mw[r].result.allowed /\ mw[r].stage = "downstream"

\* the request was handled by a middleware built with default options
DefaultOptions(r) ==
    mw[r].limiter = "throttle" \/ mw[r].config.handler = "defaultHandler"

\* retryAfter of the result, rounded up to whole seconds
RetrySeconds(r) ==
    IF mw[r].limiter = "throttle"
    THEN FCeil(FDiv(mw[r].result.retryAfter, FOf(1000)))
    ELSE Ceil(mw[r].result.retryAfter, 1000)

(* C19: every request rejected by a middleware built with default options  *)
(* has status 429, a body with the fields error, message and retryAfter,   *)
(* and a Retry-After header equal to retryAfter rounded up to whole        *)
(* seconds, at least 1.                                                    *)
C19_RejectionContract ==
    \A r \in Checked :
        (~mw[r].result.allowed /\ DefaultOptions(r)) =>
            /\ mw[r].statusCode = 429
            /\ {"error", "message", "retryAfter"} \subseteq DOMAIN mw[r].body
            /\ mw[r].headers["Retry-After"] = RetrySeconds(r)
            /\ mw[r].headers["Retry-After"] >= 1

(* C20: with the store unreachable, every request through the fixed-window *)
(* middleware with skipSuccessfulRequests or skipFailedRequests enabled is *)
(* handed downstream once its check has returned, the end of its response  *)
(* completes, and the refund attempt raises no exception and leaves no     *)
(* unhandled failure.                                                      *)
C20_OutageInvisible ==
    /\ failures = {}
    /\ \A r \in Checked :
          /\ mw[r].nextCalls = 1
          /\ mw[r].stage \in {"downstream", "ended"}

----------------------------------------------------------------------------
(* The adaptive limiter. *)

\* the requests that went through the adaptive middleware
Adaptive == {r \in 1..Len(mw) : mw[r].limiter = "adaptive"}

\* in this step a request enters the adaptive middleware
Enters ==
    /\ Len(mw') = Len(mw) + 1
    /\ mw'[Len(mw')].limiter = "adaptive"

\* the ceiling the rule assigns to key k under the present profiles
RuleCeiling(k) ==
    LET base == baseConfig.maxRequests
    IN  IF k \notin DOMAIN performanceMetrics
        THEN base
        ELSE LET e == performanceMetrics[k].errors
                 t == performanceMetrics[k].total
                 l == performanceMetrics[k].totalResponseTime
             IN  CASE 10 * e > t -> (base * 5) \div 10
                   [] 20 * e > t /\ 10 * e <= t -> (base * 75) \div 100
                   [] 100 * e < t /\ l < 100 * t -> (base * 15) \div 10
                   [] OTHER -> base

(* C15: a request entering the adaptive middleware is checked against the  *)
(* ceiling the rule assigns to its key: base * 0.5 rounded down when       *)
(* errors / total > 10%, base * 0.75 rounded down in (5%, 10%], base * 1.5 *)
(* rounded down when errors / total < 1% and the average latency is below  *)
(* 100 ms, base otherwise and without a profile; above 10% the ceiling is  *)
(* at most half of base.  The check is allowed exactly when the counter    *)
(* it read is within that ceiling.                                         *)
C15_AdaptiveRule ==
    /\ [][Enters =>
            LET r == Len(mw')
                k == mw'[r].key
            IN  /\ mw'[r].config.maxRequests = RuleCeiling(k)
                /\ (/\ k \in DOMAIN performanceMetrics
                    /\ 10 * performanceMetrics[k].errors > performanceMetrics[k].total)
                      => 2 * mw'[r].config.maxRequests <= baseConfig.maxRequests]_vars
    /\ [](\A r \in Adaptive :
            mw[r].stage # "isAllowed" =>
                mw[r].result.allowed =
                    (log[mw[r].entry].count <= mw[r].config.maxRequests))

\* under base 5 and an error rate above 10% a request of weight 3 was
\* rejected against the ceiling 2, and the base would have admitted it
C15_Witness ==
    /\ baseConfig.maxRequests = 5
    /\ \E r \in Adaptive :
          /\ mw[r].stage = "rejected"
          /\ mw[r].config.maxRequests = 2
          /\ mw[r].weight = 3
          /\ log[mw[r].entry].count = 3
          /\ mw[r].key \in DOMAIN performanceMetrics
          /\ 10 * performanceMetrics[mw[r].key].errors > performanceMetrics[mw[r].key].total

(* C16: the ceiling handed to the fixed-window limiter by the adaptive     *)
(* middleware stays within bounds: with a base ceiling of at least 1 it is *)
(* never 0.                                                                *)
C16_CeilingClamped ==
    \A r \in Adaptive :
        baseConfig.maxRequests >= 1 => mw[r].config.maxRequests >= 1

\* the requests on key k admitted by the adaptive middleware whose
\* response has ended
Served(k) ==
    {r \in Adaptive : mw[r].key = k /\ mw[r].stage = "ended"}

(* C17: once the response of a request admitted through the adaptive       *)
(* middleware has ended, the profile of its key counts it: total counts    *)
(* every such request and errors those ended with a status of 400 or more. *)
C17_OutcomeFeedback ==
    \A k \in Keys :
        Served(k) # {} =>
            /\ k \in DOMAIN performanceMetrics
            /\ performanceMetrics[k].total >= Cardinality(Served(k))
            /\ performanceMetrics[k].errors >=
                  Cardinality({r \in Served(k) : mw[r].statusCode >= 400})

----------------------------------------------------------------------------
(* Keys. *)

\* the store keys the limiters build for LimitKey k
OwnKeys(k) ==
    {windowKey(config, k, w) : w \in 0..(clock \div config.windowMs + 1)}
        \cup {redisKey(throttle, k), slidingKey(k)}

\* the store without the records of the other keys
Own(store, k) == [key \in DOMAIN store \cap OwnKeys(k) |-> store[key]]

\* the record under key, <<>> when there is none
Record(store, key) == IF key \in DOMAIN store THEN store[key] ELSE <<>>

\* the adaptive profile of LimitKey k, <<>> when there is none
Profile(k) == IF k \in DOMAIN performanceMetrics THEN performanceMetrics[k] ELSE <<>>

\* this step belongs to a check, a refund or a recordMetric call on k
OperatesOn(k) ==
    \/ \E p \in DOMAIN pc :
          /\ pc'[p] # pc[p]
          /\ IF pc[p] = "idle" THEN loc'[p].key = k ELSE loc[p].key = k
    \/ \E r \in 1..Len(mw) : Ends(r) /\ mw[r].key = k
    \/ \E t \in ResponseTimes, s \in Statuses : RecordMetric(k, t, s)

\* what this step reads of the store and of the profiles, for its count,
\* level or ceiling, is the same without the records of the other keys
ReadsOwn ==
    /\ \A p \in DOMAIN pc :
          /\ (pc[p] = "incrby" /\ pc'[p] # "incrby") =>
                LET c == IncrbyReply(Own(redis, loc[p].key), loc[p].windowKey,
                                     loc[p].weight)
                IN  IF pc'[p] = "expire"
                    THEN loc'[p].count = c
                    ELSE log'[Len(log')].count = c
          /\ (pc[p] = "eval" /\ pc'[p] = "idle") =>
                LET ret == ScriptReturn(Own(redis, loc[p].key), loc[p].redisKey,
                                        throttle, loc[p].cost, loc[p].now)
                IN  /\ log'[Len(log')].level = ret[2]
                    /\ log'[Len(log')].result.allowed = (ret[1] = 1)
          /\ (pc[p] = "zcount" /\ pc'[p] = "expire") =>
                loc'[p].count = Zcount(Own(redis, loc[p].key), loc[p].redisKey,
                                       loc[p].windowStart, loc[p].now)
    /\ Enters =>
          LET k == mw'[Len(mw')].key
          IN  mw'[Len(mw')].config.maxRequests =
                  getDynamicLimit([x \in DOMAIN performanceMetrics \cap {k} |->
                                      performanceMetrics[x]], baseConfig, k)

(* C30: a step of a check, a refund or a recordMetric call on key k1       *)
(* leaves the counters, the bucket record, the sliding log and the         *)
(* adaptive profile of every other key k2 as they were, and what a check   *)
(* reads for its result is the same without the records of other keys.     *)
C30_PerKeyIndependence ==
    [][/\ \A k1 \in KeyPair :
             OperatesOn(k1) =>
                 \A k2 \in KeyPair \ {k1} :
                     /\ \A key \in OwnKeys(k2) : Record(redis', key) = Record(redis, key)
                     /\ Profile(k2)' = Profile(k2)
        /\ ReadsOwn]_vars

\* after a sliding-window check of one client, a sliding-window check of
\* the other was admitted with count 1 under a ceiling of 1, and the store
\* holds the sorted sets of both
C30_Witness ==
    \E i, j \in 1..Len(log) :
        /\ i < j
        /\ log[i].limiter = "sliding" /\ log[j].limiter = "sliding"
        /\ log[i].key # log[j].key
        /\ log[i].result /\ log[j].result
        /\ log[j].count = 1
        /\ sliding.maxRequests = 1
        /\ slidingKey(log[i].key) \in DOMAIN redis
        /\ slidingKey(log[j].key) \in DOMAIN redis

----------------------------------------------------------------------------
(* Construction. *)

(* C21: no check runs under a misconfigured policy: the limiter a returned *)
(* check belongs to was built with a positive windowMs and positive        *)
(* ceilings (maxRequests; burstLimit and sustainedLimit).                  *)
C21_MisconfigurationRejected ==
    \A i \in 1..Len(log) :
        /\ log[i].limiter = "fixed" =>
              config.windowMs > 0 /\ config.maxRequests > 0
        /\ log[i].limiter = "throttle" =>
              /\ throttle.windowMs > 0
              /\ throttle.burstLimit > 0
              /\ throttle.sustainedLimit > 0
        /\ log[i].limiter = "sliding" =>
              sliding.windowMs > 0 /\ sliding.maxRequests > 0

----------------------------------------------------------------------------
(* Store outage. *)

\* what a fail-open result of the check logged at i must be
FailsOpen(i) ==
    CASE log[i].limiter = "fixed" ->
            /\ log[i].result.allowed
            /\ log[i].result.remaining = config.maxRequests
      [] log[i].limiter = "throttle" ->
            /\ log[i].result.allowed
            /\ log[i].result.tokensRemaining = throttle.burstLimit
      [] log[i].limiter = "sliding" -> log[i].result = TRUE

(* C6: while the store is unreachable every check of the three limiters    *)
(* returns, and returns allowed: the fixed-window result has remaining     *)
(* equal to the ceiling, the token-bucket result has tokensRemaining equal *)
(* to the burst limit, the sliding-window result is true.                  *)
C6_FailOpen ==
    ~storeUp =>
        /\ \A i \in 1..Len(log) : FailsOpen(i)
        /\ \A p \in DOMAIN pc :
              ~Idle(p) => ENABLED (\/ RateLimiterCatch(p)
                                   \/ ThrottlerCatch(p)
                                   \/ SlidingCatch(p)
                                   \/ SlidingExecErrors(p))

\* a check of each limiter has returned during the outage, the
\* sliding-window one both through its catch block and through exec()
C6_Witness ==
    /\ ~storeUp
    /\ \A kind \in {"fixed", "throttle", "sliding"} :
          \E i \in 1..Len(log) : log[i].limiter = kind /\ FailsOpen(i)
    /\ \E i \in 1..Len(log) : log[i].limiter = "sliding" /\ "count" \in DOMAIN log[i]

====
